---- MODULE Spec2Model ----
(***************************************************************************)
(* Model of the point-cloud visualizer: the geometry registry of           *)
(* PointCloudVisualizer (visible set, hidden set, renderer attachment),    *)
(* the frame pipeline load_and_display_frame with its colour assignment,   *)
(* and the PointCloudGUI handlers that drive them.                         *)
(*                                                                         *)
(* Colours are RGB triples in units of 1/1000.  Entity names are records   *)
(* [role, kind, id, fr] standing for the strings the code builds:          *)
(*   frame        "{kind}_{id}"  / "dense_cloud"                           *)
(*   map          "map_{kind}_{id}" / "map_dense_cloud"                    *)
(*   transformed  "transformed_cloud_{fr}_T_opt_w_b_{kind}[_{id}]"         *)
(*   filtered     "filtered_dense_cloud_{fr}_{kind}"                       *)
(*   lines        "dense_pt_match_lines_{fr}_{kind}"                       *)
(*   axis         "coordinate_*"                                           *)
(***************************************************************************)
EXTENDS Integers, Sequences, FiniteSets, Bags, TLC

\* ------------------------------------------------------------------ bounds
MaxId == 1
MaxFrame == 1
MaxDensePts == 2
MaxMatches == 2
PlanePts == 2
\* the calls explored on their own: ids -MaxCallId .. MaxCallId, colour counts up to
\* MaxCount and the large count LargeCount, point counts up to MaxPoints
MaxCallId == 40
MaxCount == 6
LargeCount == 101
MaxPoints == 3
MaxQ == 1
MaxT == 2
AltOffset == 5

Ids == 0..MaxId
Kinds == {"ground", "plane"}

\* ------------------------------------------------------------ generic maps
EmptyMap == [x \in {} |-> 0]

MapRemove(f, k) == [x \in (DOMAIN f) \ {k} |-> f[x]]

MapPut(f, k, v) == [x \in (DOMAIN f) \cup {k} |-> IF x = k THEN v ELSE f[x]]

Min2(a, b) == IF a < b THEN a ELSE b

Max2(a, b) == IF a > b THEN a ELSE b

\* ------------------------------------------------------------------ colours
ColorUnit == 1000
HueScale == 3240
PaletteSize == 18

RED == <<1000, 0, 0>>
GRAY == <<500, 500, 500>>
DENSE_DEFAULT == <<0, 0, 1000>>
YELLOW == <<1000, 1000, 0>>
NoColor == <<>>

\* colorsys.hsv_to_rgb with h in units of 1/HueScale, s and v in units of
\* 1/ColorUnit; one floor per component.
Sector == HueScale \div 6

HsvPick(i, v, p, q, t) ==
    CASE i = 0 -> <<v, t, p>>
      [] i = 1 -> <<q, v, p>>
      [] i = 2 -> <<p, v, t>>
      [] i = 3 -> <<p, q, v>>
      [] i = 4 -> <<t, p, v>>
      [] OTHER -> <<v, p, q>>

HsvSector(i, f, s, v) ==
    HsvPick(i, v,
            (v * (ColorUnit - s)) \div ColorUnit,
            (v * (ColorUnit * Sector - s * f)) \div (ColorUnit * Sector),
            (v * (ColorUnit * Sector - s * (Sector - f))) \div (ColorUnit * Sector))

hsv_to_rgb(h, s, v) ==
    IF s = 0 THEN <<v, v, v>> ELSE HsvSector((h \div Sector) % 6, h % Sector, s, v)

\* hue of palette entry i: 20 degrees + i/num_colors of the 320 degrees left
\* once both red bands are taken out, in units of 1/HueScale of a turn.
PaletteHue(i, num_colors) ==
    LET red_range_end == (20 * HueScale) \div 360
        available_range == ((360 - 20 - 20) * HueScale) \div 360
    IN  (red_range_end + (i * available_range) \div num_colors) % HueScale

_generate_id_colors(num_colors) ==
    [i \in 1..num_colors |-> hsv_to_rgb(PaletteHue(i - 1, num_colors), 800, 900)]

\* self.id_colors: assigned once, by __init__ (line 57)
VARIABLE id_colors

\* colors[id % len(colors)]
Wrap(colors, id) == colors[(id % Len(colors)) + 1]

\* get_color_by_id without the branch for negative ids
get_color_by_id_any_id(id) == Wrap(id_colors, id)

get_color_by_id(id) ==
    IF id < 0 THEN GRAY ELSE Wrap(id_colors, id)

\* a raw hue moved out of the two red bands [0, red_range_end) and (red_range_start2, 1]
OutOfRed(hue_raw, red_range_end, red_range_start2, available_range) ==
    IF hue_raw < red_range_end
      THEN red_range_end + (hue_raw * (available_range \div 2)) \div red_range_end
    ELSE IF hue_raw > red_range_start2
      THEN red_range_start2 - available_range \div 2
           + ((hue_raw - red_range_start2) * (available_range \div 2))
             \div (HueScale - red_range_start2)
    ELSE red_range_end
         + ((hue_raw - red_range_end) * available_range)
           \div (red_range_start2 - red_range_end)

\* golden-angle hue of point i (0.618... of a turn is 2002 / HueScale)
DistinctHue(i) ==
    OutOfRed((i * 2002) % HueScale, (20 * HueScale) \div 360, (340 * HueScale) \div 360,
             HueScale - (20 * HueScale) \div 360 - (HueScale - (340 * HueScale) \div 360))
    % HueScale

DistinctSV(num_colors, k) ==
    IF num_colors > 100
      THEN <<(800 * (700 + 150 * (k % 3))) \div 1000, (900 * (800 + 50 * (k % 5))) \div 1000>>
      ELSE <<800, 900>>

DistinctColor(hue, sv) == hsv_to_rgb(hue, sv[1], sv[2])

generate_distinct_colors(num_colors) ==
    IF num_colors <= 0 THEN <<>>
    ELSE IF num_colors = 1 THEN << hsv_to_rgb(HueScale \div 3, 800, 900) >>
    ELSE [i \in 1..num_colors |->
            DistinctColor(DistinctHue(i - 1), DistinctSV(num_colors, i - 1))]

Clip(color) == [j \in 1..3 |-> Max2(0, Min2(ColorUnit, color[j]))]

Tile(color, n) == [j \in 1..n |-> color]

\* -------------------------------------------------------------------- names
NoId == 0 - 1

FrameName(kind, id) == [role |-> "frame", kind |-> kind, id |-> id, fr |-> NoId]

MapName(kind, id) == [role |-> "map", kind |-> kind, id |-> id, fr |-> NoId]

DenseName(prefix) ==
    [role |-> IF prefix = "map_" THEN "map" ELSE "frame",
     kind |-> "dense_cloud", id |-> NoId, fr |-> NoId]

TransformedName(f, kind, id) ==
    [role |-> "transformed", kind |-> kind, id |-> id, fr |-> f]

TransformedDenseName(f) == TransformedName(f, "dense_cloud", NoId)

PointTypes == {"matched_to_plane", "matched_to_dense", "unmatched"}

FilteredName(f, point_type) ==
    [role |-> "filtered", kind |-> point_type, id |-> NoId, fr |-> f]

LinesName(f, point_type) ==
    [role |-> "lines", kind |-> point_type, id |-> NoId, fr |-> f]

AxisName(k) == [role |-> "axis", kind |-> k, id |-> NoId, fr |-> NoId]

\* the nine helpers create_visualizer / add_coordinate_axes register
\* (Config.COORDINATE_GRID_ENABLED is False, so no grid)
axis_names ==
    {AxisName(k) : k \in {"coordinate_axis_x", "coordinate_arrow_x",
                          "coordinate_axis_y", "coordinate_arrow_y",
                          "coordinate_axis_z", "coordinate_arrow_z",
                          "coordinate_label_x", "coordinate_label_y",
                          "coordinate_label_z"}}

\* the names clear_all_geometries keeps
coordinate_names ==
    axis_names \cup {AxisName(k) : k \in {"coordinate_grid_xy", "coordinate_grid_xz",
                                          "coordinate_grid_yz"}}

\* name.startswith(cloud_type + '_') or name.startswith('map_' + cloud_type + '_'),
\* and for 'dense_cloud' the two exact names
IsTypeName(name, cloud_type) ==
    IF cloud_type = "dense_cloud"
      THEN name = DenseName("") \/ name = DenseName("map_")
      ELSE name.role \in {"frame", "map"} /\ name.kind = cloud_type

\* name.startswith("transformed_cloud_{f}_T_opt_w_b_") with the file stem of the type
IsTransformedOfType(name, f, cloud_type) ==
    /\ name.role = "transformed"
    /\ name.fr = f
    /\ name.kind = cloud_type

\* ------------------------------------------------------ geometries and info
\* the points of a geometry read from a file as they are
NoMove == [T |-> NoId, by |-> <<0, 0, 0>>]

\* A geometry object: the name and the load it was created for (its identity),
\* whether it is a PointCloud, its point count, its colours (<<>>: none) and where its
\* points are.
Geometry(name, age, pcd, pts, colors) ==
    [name |-> name, age |-> age, pcd |-> pcd, pts |-> pts, colors |-> colors,
     moved |-> NoMove]

\* the x, y and z offset arguments' default, which the spin boxes start with as well
DefaultOffset == <<0, 0, 10>>

\* transformed_points = (T @ points_homogeneous.T).T[:, :3] for the T of frame f's
\* debug.txt, then column by column += the offset
Transformed(geometry, f, offset) ==
    [geometry EXCEPT !.moved = [T |-> f, by |-> <<0 + offset[1], 0 + offset[2], 0 + offset[3]>>]]

\* a point_cloud_info record: 'type', 'frame_id', 'frame_type' and 'id' (NoId / "none":
\* the key is absent); NoInfo is the empty dict
NoInfo == [type |-> "none", frame_id |-> NoId, frame_type |-> "none", id |-> NoId]

Info(type, frame_id, frame_type, id) ==
    [type |-> type, frame_id |-> frame_id, frame_type |-> frame_type, id |-> id]

\* dict.get(name, {})
InfoGet(point_cloud_info, name) ==
    IF name \in DOMAIN point_cloud_info THEN point_cloud_info[name] ELSE NoInfo

BagAdd(B, e) == B (+) SetToBag({e})

BagDel(B, e) == IF BagIn(e, B) THEN B (-) SetToBag({e}) ELSE B

\* ------------------------------------------------------- registry operations
\* s is the visualizer's state: [vis, geometries, hidden_geometries,
\* point_cloud_info, original_colors, attached, td_colors]

remove_geometry(s, name) ==
    IF ~s.vis \/ name \notin DOMAIN s.geometries THEN s
    ELSE [s EXCEPT !.attached = BagDel(s.attached, s.geometries[name]),
                   !.geometries = MapRemove(s.geometries, name)]

\* lines 255-277: a point cloud gets the given colour on every point, keeps colours that
\* fit its points, and is gray otherwise
Colored(geometry, color) ==
    IF ~geometry.pcd THEN geometry
    ELSE IF color # NoColor
      THEN [geometry EXCEPT !.colors = Tile(Clip(color), geometry.pts)]
    ELSE IF geometry.colors # <<>> /\ Len(geometry.colors) = geometry.pts
      THEN geometry
    ELSE [geometry EXCEPT !.colors = Tile(GRAY, geometry.pts)]

\* lines 278-282: remember the colours, attach, register
Register(s, g, name) ==
    [s EXCEPT !.original_colors =
                  IF g.pcd THEN MapPut(s.original_colors, name, g.colors)
                  ELSE s.original_colors,
              !.attached = BagAdd(s.attached, g),
              !.geometries = MapPut(s.geometries, name, g)]

\* add_geometry that leaves a geometry already registered under the name attached
add_geometry_keeping_old(s, geometry, name, color) ==
    IF ~s.vis THEN s
    ELSE Register(s, Colored(geometry, color), name)

add_geometry(s, geometry, name, color) ==
    IF ~s.vis THEN s
    ELSE Register(IF name \in DOMAIN s.geometries THEN remove_geometry(s, name) ELSE s,
                  Colored(geometry, color), name)

\* the id hide_geometry reads back from "ground_3" / "map_plane_3"
NameId(name) == IF name.id = NoId THEN 0 ELSE name.id

AllSame(arr) == \A j \in 1..Len(arr) : arr[j] = arr[1]

\* lines 297-360: capture the colours, move the entry to the hidden set, detach
CapturedArray(s, name, geometry) ==
    IF geometry.pcd /\ geometry.colors # <<>> THEN geometry.colors
    ELSE IF name \in DOMAIN s.original_colors /\ Len(s.original_colors[name]) > 0
            /\ ~AllSame(s.original_colors[name])
      THEN s.original_colors[name]
    ELSE <<>>

CapturedColor(s, name, geometry, info) ==
    IF geometry.pcd /\ geometry.colors # <<>> THEN NoColor
    ELSE IF name \in DOMAIN s.original_colors /\ Len(s.original_colors[name]) > 0
      THEN (IF AllSame(s.original_colors[name]) THEN s.original_colors[name][1] ELSE NoColor)
    ELSE IF name = DenseName("") \/ name = DenseName("map_")
      THEN DENSE_DEFAULT
    ELSE IF name.role \in {"frame", "map"} /\ name.kind \in Kinds
      THEN get_color_by_id(IF info.id # NoId THEN info.id ELSE NameId(name))
    ELSE NoColor

MoveToHidden(s, name, geometry, info) ==
    [s EXCEPT !.hidden_geometries =
                  MapPut(s.hidden_geometries, name,
                         [geometry |-> geometry, info |-> info,
                          color |-> CapturedColor(s, name, geometry, info),
                          color_array |-> CapturedArray(s, name, geometry)]),
              !.attached = BagDel(s.attached, geometry),
              !.geometries = MapRemove(s.geometries, name),
              !.point_cloud_info = MapRemove(s.point_cloud_info, name)]

HideCapture(s, name) ==
    MoveToHidden(s, name, s.geometries[name], InfoGet(s.point_cloud_info, name))

\* hide_geometry without the early return for a name that is not visible: an entry
\* that is already hidden is captured again, from nothing
hide_geometry_recapturing(s, name) ==
    IF ~s.vis THEN s
    ELSE IF name \in DOMAIN s.geometries THEN HideCapture(s, name)
    ELSE IF name \in DOMAIN s.hidden_geometries
      THEN [s EXCEPT !.hidden_geometries[name] =
               [geometry |-> s.hidden_geometries[name].geometry, info |-> NoInfo,
                color |-> NoColor, color_array |-> <<>>]]
    ELSE s

hide_geometry(s, name) ==
    IF ~s.vis \/ name \notin DOMAIN s.geometries THEN s
    ELSE HideCapture(s, name)

\* lines 383-388: the info comes back, the hidden entry goes
Restored(s, name, info) ==
    [s EXCEPT !.point_cloud_info = MapPut(s.point_cloud_info, name, info),
              !.hidden_geometries = MapRemove(s.hidden_geometries, name)]

\* show_geometry that derives the colour again from the id in the name
show_geometry_by_id(s, name) ==
    IF ~s.vis \/ name \notin DOMAIN s.hidden_geometries THEN s
    ELSE Restored(add_geometry(s, s.hidden_geometries[name].geometry, name,
                               get_color_by_id(NameId(name))),
                  name, s.hidden_geometries[name].info)

\* lines 368-382: the colour array when one was captured, the single colour otherwise
Reattach(s, name, hidden_data) ==
    IF hidden_data.color_array # <<>> /\ hidden_data.geometry.pcd
      THEN add_geometry(s, [hidden_data.geometry EXCEPT !.colors = hidden_data.color_array],
                        name, NoColor)
      ELSE add_geometry(s, hidden_data.geometry, name, hidden_data.color)

show_geometry(s, name) ==
    IF ~s.vis \/ name \notin DOMAIN s.hidden_geometries THEN s
    ELSE Restored(Reattach(s, name, s.hidden_geometries[name]),
                  name, s.hidden_geometries[name].info)

\* for name in names: op(s, name)  -- the loops over lists of names
RECURSIVE HideEach(_, _)
HideEach(s, names) ==
    IF names = {} THEN s
    ELSE LET n == CHOOSE x \in names : TRUE
         IN  HideEach(hide_geometry(s, n), names \ {n})

RECURSIVE ShowEach(_, _)
ShowEach(s, names) ==
    IF names = {} THEN s
    ELSE LET n == CHOOSE x \in names : TRUE
         IN  ShowEach(show_geometry(s, n), names \ {n})

RECURSIVE RemoveEach(_, _)
RemoveEach(s, names) ==
    IF names = {} THEN s
    ELSE LET n == CHOOSE x \in names : TRUE
         IN  RemoveEach(remove_geometry(s, n), names \ {n})

\* toggle_point_cloud_type that looks for the 'map_' names only
toggle_point_cloud_type_map_only(s, cloud_type) ==
    IF ~s.vis THEN [s |-> s, ret |-> FALSE]
    ELSE LET visible_names == {n \in DOMAIN s.geometries :
                                  IsTypeName(n, cloud_type) /\ n.role = "map"}
             hidden_names == {n \in DOMAIN s.hidden_geometries :
                                  IsTypeName(n, cloud_type) /\ n.role = "map"}
         IN  IF visible_names # {} THEN [s |-> HideEach(s, visible_names), ret |-> FALSE]
             ELSE IF hidden_names # {} THEN [s |-> ShowEach(s, hidden_names), ret |-> TRUE]
             ELSE [s |-> s, ret |-> FALSE]

\* returns [s, ret]
toggle_point_cloud_type(s, cloud_type) ==
    IF ~s.vis THEN [s |-> s, ret |-> FALSE]
    ELSE LET visible_names == {n \in DOMAIN s.geometries : IsTypeName(n, cloud_type)}
             hidden_names == {n \in DOMAIN s.hidden_geometries : IsTypeName(n, cloud_type)}
         IN  IF visible_names # {} THEN [s |-> HideEach(s, visible_names), ret |-> FALSE]
             ELSE IF hidden_names # {} THEN [s |-> ShowEach(s, hidden_names), ret |-> TRUE]
             ELSE [s |-> s, ret |-> FALSE]

clear_all_geometries(s) ==
    IF ~s.vis THEN s
    ELSE [RemoveEach(s, (DOMAIN s.geometries) \ coordinate_names)
            EXCEPT !.hidden_geometries = EmptyMap]

AxisGeometry(name) == Geometry(name, "axis", FALSE, 0, <<>>)

\* a new window: the renderer holds the nine axis helpers only
create_visualizer(s) ==
    [s EXCEPT !.vis = TRUE,
              !.attached = SetToBag({AxisGeometry(n) : n \in axis_names}),
              !.geometries = [n \in (DOMAIN s.geometries) \cup axis_names |->
                                IF n \in axis_names THEN AxisGeometry(n) ELSE s.geometries[n]]]

AttachAxis(s, n) ==
    [s EXCEPT !.attached = BagAdd(s.attached, AxisGeometry(n)),
              !.geometries = MapPut(s.geometries, n, AxisGeometry(n))]

RECURSIVE AddAxisEach(_, _)
AddAxisEach(s, names) ==
    IF names = {} THEN s
    ELSE LET n == CHOOSE x \in names : TRUE
         IN  AddAxisEach(AttachAxis(IF n \in DOMAIN s.geometries THEN remove_geometry(s, n)
                                    ELSE s, n),
                         names \ {n})

add_coordinate_axes(s) == IF ~s.vis THEN s ELSE AddAxisEach(s, axis_names)

\* "if self.vis is None: create_visualizer() else: add axes when missing"
EnsureWindow(s) ==
    IF ~s.vis THEN create_visualizer(s)
    ELSE IF AxisName("coordinate_axis_x") \notin DOMAIN s.geometries
      THEN add_coordinate_axes(s)
    ELSE s

\* ------------------------------------------------------------ the data source
\* One data directory: every frame folder holds the same files.
\*   fg, fp  ids of frame/ground_*.ply and frame/plane_*.ply     fd  points of frame/dense_cloud.ply (0: no file)
\*   mg, mp, md  the same for map/                                hasT  debug.txt holds T_opt_w_b
\*   hasMatch  match.json exists;  pm  plane_match_infos;  dm  dense_pt_match_infos
PLANE == 1
GROUND == 2

TypeName(t) == IF t = PLANE THEN "plane" ELSE IF t = GROUND THEN "ground" ELSE "unknown"

PlanarMatch(ct, ci, ot, oi) == [ct |-> ct, ci |-> ci, ot |-> ot, oi |-> oi]

DenseMatch(cur, other) == [cur |-> cur, other |-> other]

\* ordered dict as a sequence of <<key, value>>: d[k] = v keeps the place of an old key
DictHas(d, k) == \E i \in 1..Len(d) : d[i][1] = k

DictGet(d, k) == d[CHOOSE i \in 1..Len(d) : d[i][1] = k][2]

DictPut(d, k, v) ==
    IF DictHas(d, k) THEN [i \in 1..Len(d) |-> IF d[i][1] = k THEN <<k, v>> ELSE d[i]]
    ELSE Append(d, <<k, v>>)

RECURSIVE SortedSeq(_)
SortedSeq(S) ==
    IF S = {} THEN <<>>
    ELSE LET m == CHOOSE x \in S : \A y \in S : x <= y
         IN  <<m>> \o SortedSeq(S \ {m})

\* ------------------------------------------------------------ frame pipeline
\* st is [s, tg, tp]: the visualizer state and the two id -> colour dicts
\* transformed_frame_id_to_color_ground / _plane of load_and_display_frame.

\* self.point_cloud_info[name] = info
WithInfo(s, name, info) ==
    [s EXCEPT !.point_cloud_info = MapPut(s.point_cloud_info, name, info)]

\* one ground / plane file of the transformed frame: the cloud in the colour of its id,
\* and the colour under the id in the dict of its kind
TransformedOne(st, f, kind, file_id, name, color, age, offset) ==
    [s |-> WithInfo(add_geometry(st.s, Transformed(Geometry(name, age, TRUE, PlanePts, <<>>),
                                                   f, offset), name, color),
                    name, Info("transformed_cloud", f, "none", file_id)),
     tg |-> IF kind = "ground" THEN DictPut(st.tg, file_id, color) ELSE st.tg,
     tp |-> IF kind = "plane" THEN DictPut(st.tp, file_id, color) ELSE st.tp]

RECURSIVE TransformedEach(_, _, _, _, _, _)
TransformedEach(st, f, kind, ids, age, offset) ==
    IF ids = <<>> THEN st
    ELSE TransformedEach(TransformedOne(st, f, kind, Head(ids),
                                        TransformedName(f, kind, Head(ids)),
                                        get_color_by_id(Head(ids)), age, offset),
                         f, kind, Tail(ids), age, offset)

\* self.transformed_dense_cloud_colors[frame_id][i] = color for every i
StoreDenseColors(td_colors, f, colors) ==
    LET old == IF f \in DOMAIN td_colors THEN td_colors[f] ELSE EmptyMap
        new == [i \in (DOMAIN old) \cup (0..(Len(colors) - 1)) |->
                   IF i < Len(colors) THEN colors[i + 1] ELSE old[i]]
    IN  MapPut(td_colors, f, new)

\* lines 1180-1240: the transformed dense cloud, one distinct colour per point
TransformedDense(s, f, name, num_points, distinct_colors, age, offset) ==
    WithInfo(add_geometry([s EXCEPT !.td_colors =
                                StoreDenseColors(s.td_colors, f, distinct_colors)],
                          Transformed(Geometry(name, age, TRUE, num_points, distinct_colors),
                                      f, offset), name, NoColor),
             name, Info("transformed_cloud", f, "none", NoId))

_load_and_display_transformed_frame_clouds(st, f, d, age, offset) ==
    IF ~d.hasT THEN st
    ELSE TransformedEach(
             TransformedEach(
                 [st EXCEPT !.s = IF d.fd = 0 THEN st.s
                                  ELSE TransformedDense(st.s, f, TransformedDenseName(f), d.fd,
                                                        generate_distinct_colors(d.fd),
                                                        age, offset)],
                 f, "ground", SortedSeq(d.fg), age, offset),
             f, "plane", SortedSeq(d.fp), age, offset)

\* plane_match_infos -> [plane, ground]: match_mapping_plane / match_mapping_ground
ParseOne(acc, m) ==
    IF m.oi < 0 THEN acc
    ELSE IF m.ct = PLANE THEN [acc EXCEPT !.plane = DictPut(acc.plane, m.ci, m.oi)]
    ELSE IF m.ct = GROUND THEN [acc EXCEPT !.ground = DictPut(acc.ground, m.ci, m.oi)]
    ELSE acc

RECURSIVE ParsePlanar(_, _)
ParsePlanar(pm, acc) ==
    IF pm = <<>> THEN acc
    ELSE ParsePlanar(Tail(pm), ParseOne(acc, Head(pm)))

\* for cur_id, other_id in mapping.items(): if cur_id in colours: map_id_to_color[other_id] = ...
RECURSIVE PropagateColors(_, _, _)
PropagateColors(mapping, colours, map_id_to_color) ==
    IF mapping = <<>> THEN map_id_to_color
    ELSE LET cur_id == Head(mapping)[1]
             other_id == Head(mapping)[2]
         IN  PropagateColors(Tail(mapping), colours,
                             IF DictHas(colours, cur_id)
                               THEN DictPut(map_id_to_color, other_id, DictGet(colours, cur_id))
                               ELSE map_id_to_color)

\* the ground loop, then the plane loop, into the one dict map_id_to_color
PropagateBoth(mm, tg, tp) ==
    PropagateColors(mm.plane, tp, PropagateColors(mm.ground, tg, <<>>))

BuildMapIdToColor(d, tg, tp) ==
    IF ~d.hasMatch THEN <<>>
    ELSE PropagateBoth(ParsePlanar(d.pm, [plane |-> <<>>, ground |-> <<>>]), tg, tp)

\* dense_pt_match_infos -> dense_pt_match_mapping
RECURSIVE ParseDense(_, _)
ParseDense(dm, acc) ==
    IF dm = <<>> THEN acc
    ELSE ParseDense(Tail(dm),
                    IF Head(dm).other >= 0 THEN DictPut(acc, Head(dm).cur, Head(dm).other)
                    ELSE acc)

DensePtMatchMapping(d) == IF d.hasMatch THEN ParseDense(d.dm, <<>>) ELSE <<>>

HasColors(td_colors, f) == f \in DOMAIN td_colors /\ DOMAIN td_colors[f] # {}

\* the per-point colours of map_dense_cloud: red, then transformed_colors[cur_id] at other_id
RECURSIVE DenseColorArray(_, _, _)
DenseColorArray(mapping, transformed_colors, colors_array) ==
    IF mapping = <<>> THEN colors_array
    ELSE LET cur_id == Head(mapping)[1]
             other_id == Head(mapping)[2]
         IN  DenseColorArray(Tail(mapping), transformed_colors,
                 IF cur_id \in DOMAIN transformed_colors /\ other_id >= 0
                    /\ other_id < Len(colors_array)
                   THEN [colors_array EXCEPT ![other_id + 1] = transformed_colors[cur_id]]
                   ELSE colors_array)

PrefixRole(prefix) == IF prefix = "map_" THEN "map" ELSE "frame"

\* the ground loop and the plane loop of _display_point_clouds; useMap: map_id_to_color
\* is not None
DisplayOne(s, f, frame_type, kind, file_id, name, color, age) ==
    WithInfo(add_geometry(s, Geometry(name, age, TRUE, PlanePts, <<>>), name, color),
             name, Info(kind, f, frame_type, file_id))

RECURSIVE DisplayEach(_, _, _, _, _, _, _, _, _)
DisplayEach(s, f, frame_type, kind, ids, prefix, useMap, map_id_to_color, age) ==
    IF ids = <<>> THEN s
    ELSE DisplayEach(
             DisplayOne(s, f, frame_type, kind, Head(ids),
                        [role |-> PrefixRole(prefix), kind |-> kind, id |-> Head(ids), fr |-> NoId],
                        IF prefix = "map_" /\ useMap
                          THEN IF DictHas(map_id_to_color, Head(ids))
                                 THEN DictGet(map_id_to_color, Head(ids)) ELSE RED
                          ELSE Clip(get_color_by_id(Head(ids))),
                        age),
             f, frame_type, kind, Tail(ids), prefix, useMap, map_id_to_color, age)

\* the dense cloud of the folder: matched colours on red for the map when the transformed
\* colours exist, the default colour otherwise
DisplayDense(s, f, dense_name, num_points, frame_type, matched, dense_pt_match_mapping, age) ==
    WithInfo(IF matched
               THEN add_geometry(s,
                      Geometry(dense_name, age, TRUE, num_points,
                               DenseColorArray(dense_pt_match_mapping, s.td_colors[f],
                                               Tile(RED, num_points))),
                      dense_name, NoColor)
               ELSE add_geometry(s, Geometry(dense_name, age, TRUE, num_points, <<>>),
                                 dense_name, DENSE_DEFAULT),
             dense_name, Info("dense_cloud", f, frame_type, NoId))

\* side: [dense, grounds, planes] of one folder; useDense: dense_pt_match_mapping is not None
_display_point_clouds(s, f, side, frame_type, useMap, map_id_to_color, prefix, useDense, dense_pt_match_mapping, age) ==
    DisplayEach(
        DisplayEach(
            IF side.dense = 0 THEN s
            ELSE DisplayDense(s, f, DenseName(prefix), side.dense, frame_type,
                              prefix = "map_" /\ useDense /\ HasColors(s.td_colors, f),
                              dense_pt_match_mapping, age),
            f, frame_type, "ground", SortedSeq(side.grounds), prefix, useMap, map_id_to_color, age),
        f, frame_type, "plane", SortedSeq(side.planes), prefix, useMap, map_id_to_color, age)

FrameSide(d) == [dense |-> d.fd, grounds |-> d.fg, planes |-> d.fp]

MapSide(d) == [dense |-> d.md, grounds |-> d.mg, planes |-> d.mp]

\* the sorted ply files of the frame folder: dense_cloud, ground_*, plane_*
FrameFiles(d) ==
    (IF d.fd > 0 THEN << [kind |-> "dense_cloud", id |-> NoId] >> ELSE <<>>)
    \o [i \in 1..Cardinality(d.fg) |-> [kind |-> "ground", id |-> SortedSeq(d.fg)[i]]]
    \o [i \in 1..Cardinality(d.fp) |-> [kind |-> "plane", id |-> SortedSeq(d.fp)[i]]]

\* name.startswith(stem prefix) over names that do not start with 'transformed_cloud_'
StartsWithType(name, kind) ==
    IF kind = "dense_cloud" THEN name = DenseName("")
    ELSE name.role = "frame" /\ name.kind = kind

\* lines 2089-2097
HasCorrespondingType(s, kind) ==
    \E n \in (DOMAIN s.geometries) \cup (DOMAIN s.hidden_geometries) : StartsWithType(n, kind)

\* lines 2099-2111
OriginalTypeVisible(s, kind) ==
    ~HasCorrespondingType(s, kind) \/ \E n \in DOMAIN s.geometries : StartsWithType(n, kind)

\* lines 2117-2131: a dense cloud gets one distinct colour per point, remembered by index
TransformedDenseFile(s, f, geometry_name, pts, distinct_colors, age, offset) ==
    add_geometry([s EXCEPT !.td_colors =
                      MapPut(s.td_colors, f, [i \in 0..(pts - 1) |-> distinct_colors[i + 1]])],
                 Transformed(Geometry(geometry_name, age, TRUE, pts, distinct_colors), f, offset),
                 geometry_name, NoColor)

\* lines 2113-2160: the transformed cloud of one file is added
TransformAdd(s, f, file, geometry_name, age, offset) ==
    IF file.kind = "dense_cloud"
      THEN TransformedDenseFile(s, f, geometry_name, file.pts,
                                generate_distinct_colors(file.pts), age, offset)
      ELSE add_geometry(s, Transformed(Geometry(geometry_name, age, TRUE, PlanePts, <<>>),
                                       f, offset),
                        geometry_name, Clip(get_color_by_id(file.id)))

\* lines 2162-2177: hidden again when its base kind is hidden, then its info is stored
TransformFinish(s1, f, geometry_name, hide) ==
    WithInfo(IF hide THEN hide_geometry(s1, geometry_name) ELSE s1,
             geometry_name, Info("transformed_cloud", f, "none", NoId))

RECURSIVE TransformFileEach(_, _, _, _, _)
TransformFileEach(s, f, files, age, offset) ==
    IF files = <<>> THEN s
    ELSE TransformFileEach(
             TransformFinish(
                 TransformAdd(s, f, Head(files),
                              TransformedName(f, Head(files).kind, Head(files).id),
                              age, offset),
                 f, TransformedName(f, Head(files).kind, Head(files).id),
                 HasCorrespondingType(s, Head(files).kind)
                 /\ ~OriginalTypeVisible(s, Head(files).kind)),
             f, Tail(files), age, offset)

\* lines 2030-2041: hidden transformed clouds of the frame are forgotten
DropHiddenTransformed(s, hidden) ==
    [s EXCEPT !.hidden_geometries = [n \in (DOMAIN s.hidden_geometries) \ hidden |->
                                        s.hidden_geometries[n]],
              !.point_cloud_info = [n \in (DOMAIN s.point_cloud_info) \ hidden |->
                                        s.point_cloud_info[n]]]

TransformedOfFrame(names, f) == {n \in names : n.role = "transformed" /\ n.fr = f}

WithPts(files, pts) ==
    [i \in 1..Len(files) |-> [kind |-> files[i].kind, id |-> files[i].id, pts |-> pts]]

load_and_transform_point_cloud(s, f, d, age, offset) ==
    IF ~d.hasT \/ FrameFiles(d) = <<>> THEN s
    ELSE TransformFileEach(
             DropHiddenTransformed(
                 RemoveEach(s, TransformedOfFrame(DOMAIN s.geometries, f)),
                 TransformedOfFrame(DOMAIN s.hidden_geometries, f)),
             f, WithPts(FrameFiles(d), d.fd), age, offset)

\* DataLoader.load_point_cloud on a .ply file of pts points: None (<<>>) when the file
\* parses to no point
load_point_cloud(pts) == IF pts = 0 THEN <<>> ELSE << pts >>

\* one file of load_frame_data: len(pcd.points) is taken of what load_point_cloud
\* returned, before `if pcd:`; on None this raises AttributeError
AppendLoaded(acc, key, file, pcd) ==
    IF pcd = <<>> THEN [acc EXCEPT !.err = TRUE]
    ELSE [acc EXCEPT ![key] = Append(@, [id |-> file.id, pts |-> pcd[1]])]

\* files['dense_cloud'][0], if the list is not empty
FirstOf(files) == IF files = <<>> THEN <<>> ELSE << Head(files) >>

RECURSIVE LoadEach(_, _, _)
LoadEach(files, key, acc) ==
    IF files = <<>> \/ acc.err THEN acc
    ELSE LoadEach(Tail(files), key,
                  AppendLoaded(acc, key, Head(files), load_point_cloud(Head(files).pts)))

\* files: the .ply files get_frame_files lists, [id, pts] each; only the first
\* dense_cloud file is read. The result is [dense_cloud, err, grounds, planes]
load_frame_data(files) ==
    LoadEach(files.plane, "planes",
        LoadEach(files.ground, "grounds",
            LoadEach(FirstOf(files.dense_cloud), "dense_cloud",
                     [dense_cloud |-> <<>>, err |-> FALSE, grounds |-> <<>>, planes |-> <<>>])))

\* ------------------------------------------------------------ data_loader: transforms
\* dict.get(key, 0) on a dict kept as a sequence of <<key, value>>
GetOr(d, key, default) == IF DictHas(d, key) THEN DictGet(d, key) ELSE default

\* an exact number is a pair <<numerator, denominator>>; a division by zero leaves
\* denominator 0 (numpy's nan)
\* a/norm * b/norm for norm = sqrt(n2), the components having been divided by norm
\* (lines 400-401) exactly when divided
Prod(a, b, n2, divided) == IF divided THEN <<a * b, n2>> ELSE <<a * b, 1>>

\* 1 - 2*(p + q), 2*(p + q) and 2*(p - q), p and q two products over one denominator
OneMinusTwice(p, q) == <<p[2] - 2 * (p[1] + q[1]), p[2]>>

Twice(p, q) == <<2 * (p[1] + q[1]), p[2]>>

TwiceDiff(p, q) == <<2 * (p[1] - q[1]), p[2]>>

\* lines 403-407: the matrix of the components w, x, y, z as they stand after line 401
RotationOf(w, x, y, z, n2, divided) ==
    << << OneMinusTwice(Prod(y, y, n2, divided), Prod(z, z, n2, divided)),
          TwiceDiff(Prod(x, y, n2, divided), Prod(w, z, n2, divided)),
          Twice(Prod(x, z, n2, divided), Prod(w, y, n2, divided)) >>,
       << Twice(Prod(x, y, n2, divided), Prod(w, z, n2, divided)),
          OneMinusTwice(Prod(x, x, n2, divided), Prod(z, z, n2, divided)),
          TwiceDiff(Prod(y, z, n2, divided), Prod(w, x, n2, divided)) >>,
       << TwiceDiff(Prod(x, z, n2, divided), Prod(w, y, n2, divided)),
          Twice(Prod(y, z, n2, divided), Prod(w, x, n2, divided)),
          OneMinusTwice(Prod(x, x, n2, divided), Prod(y, y, n2, divided)) >> >>

\* w*w + x*x + y*y + z*z, the square of norm (line 397)
NormSquared(w, x, y, z) == w * w + x * x + y * y + z * z

Components(w, x, y, z, divided) == RotationOf(w, x, y, z, NormSquared(w, x, y, z), divided)

\* lines 400-401 without the guard of line 399
quaternion_to_rotation_matrix_unguarded(q) ==
    Components(GetOr(q, "w", 0), GetOr(q, "x", 0), GetOr(q, "y", 0), GetOr(q, "z", 0), TRUE)

\* q: the dict {'w','x','y','z'}, any key may be missing; norm > 0 iff its square is
quaternion_to_rotation_matrix(q) ==
    Components(GetOr(q, "w", 0), GetOr(q, "x", 0), GetOr(q, "y", 0), GetOr(q, "z", 0),
               NormSquared(GetOr(q, "w", 0), GetOr(q, "x", 0),
                           GetOr(q, "y", 0), GetOr(q, "z", 0)) > 0)

\* np.eye(4) with T[:3, :3] = R and T[:3, 3] = translation
Homogeneous(R, translation) ==
    [i \in 1..4 |-> [j \in 1..4 |->
        IF i <= 3 /\ j <= 3 THEN R[i][j]
        ELSE IF i <= 3 THEN <<translation[i], 1>>
        ELSE IF j = 4 THEN <<1, 1>> ELSE <<0, 1>>]]

transform_to_matrix(transform_dict) ==
    Homogeneous(quaternion_to_rotation_matrix(GetOr(transform_dict, "q", <<>>)),
                << GetOr(GetOr(transform_dict, "t", <<>>), "a", 0),
                   GetOr(GetOr(transform_dict, "t", <<>>), "b", 0),
                   GetOr(GetOr(transform_dict, "t", <<>>), "c", 0) >>)

\* lines 2204-2208 with every other_id taken as it comes
RECURSIVE MatchedMapIdsUnchecked(_, _)
MatchedMapIdsUnchecked(mapping, num_points) ==
    IF mapping = <<>> THEN {}
    ELSE {Head(mapping)[2]} \cup MatchedMapIdsUnchecked(Tail(mapping), num_points)

\* lines 2204-2208: the other ids of the mapping that are points of the map cloud
RECURSIVE MatchedMapIds(_, _)
MatchedMapIds(mapping, num_points) ==
    IF mapping = <<>> THEN {}
    ELSE (IF Head(mapping)[2] >= 0 /\ Head(mapping)[2] < num_points
            THEN {Head(mapping)[2]} ELSE {})
         \cup MatchedMapIds(Tail(mapping), num_points)

\* lines 2210-2214
SplitMapIds(num_points, matched_map_ids) ==
    [matched_map_ids |-> matched_map_ids,
     unmatched_map_ids |-> (0..(num_points - 1)) \ matched_map_ids]

\* the two id sets written to matched_/unmatched_map_dense_cloud_points_{frame_id}.txt
_save_matched_and_unmatched_points(num_points, dense_pt_match_mapping) ==
    SplitMapIds(num_points, MatchedMapIds(dense_pt_match_mapping, num_points))

\* sorted(ids, reverse=True)
RECURSIVE SortedReverse(_)
SortedReverse(ids) ==
    IF ids = {} THEN <<>>
    ELSE <<CHOOSE x \in ids : \A y \in ids : x >= y>>
         \o SortedReverse(ids \ {CHOOSE x \in ids : \A y \in ids : x >= y})

\* lines 2216-2253: the two files of a frame, the ids one per line in descending order
WrittenFiles(sets) ==
    [matched |-> SortedReverse(sets.matched_map_ids),
     unmatched |-> SortedReverse(sets.unmatched_map_ids)]

\* lines 1684-1685 of load_and_display_frame: the ids are exported when the map has a
\* dense cloud and the mapping is not empty; files: frame id -> the files of the frame
ExportStage(files, f, num_points, dense_pt_match_mapping) ==
    IF num_points > 0 /\ Len(dense_pt_match_mapping) > 0
      THEN MapPut(files, f,
                  WrittenFiles(_save_matched_and_unmatched_points(num_points,
                                                                  dense_pt_match_mapping)))
      ELSE files

\* a registered or hidden geometry object by name, <<>> if there is none
FindGeometry(s, name) ==
    IF name \in DOMAIN s.geometries THEN << s.geometries[name] >>
    ELSE IF name \in DOMAIN s.hidden_geometries THEN << s.hidden_geometries[name].geometry >>
    ELSE <<>>

\* the segments _create_lineset_for_point_type keeps: both indices in range
RECURSIVE ValidSegments(_, _, _)
ValidSegments(mapping, num_transformed, num_map) ==
    IF mapping = <<>> THEN <<>>
    ELSE LET cur_id == Head(mapping)[1]
             other_id == Head(mapping)[2]
             rest == ValidSegments(Tail(mapping), num_transformed, num_map)
         IN  IF cur_id < 0 \/ cur_id >= num_transformed \/ other_id < 0 \/ other_id >= num_map
               THEN rest ELSE << <<cur_id, other_id>> >> \o rest

LineSet(name, age, segs) ==
    [name |-> name, age |-> age, pcd |-> FALSE, pts |-> Len(segs), colors |-> Tile(YELLOW, Len(segs))]

_create_lineset_for_point_type(s, f, point_type, match_mapping, num_transformed, num_map, age) ==
    LET segs == ValidSegments(match_mapping, num_transformed, num_map)
        geometry_name == LinesName(f, point_type)
    IN  IF match_mapping = <<>> \/ segs = <<>> THEN s
        ELSE add_geometry(remove_geometry(s, geometry_name),
                          LineSet(geometry_name, age, segs), geometry_name, NoColor)

_draw_dense_pt_match_lines(s, f, dense_pt_match_mapping, age) ==
    LET transformed_pcd == FindGeometry(s, TransformedDenseName(f))
        map_pcd == FindGeometry(s, DenseName("map_"))
    IN  IF ~s.vis \/ transformed_pcd = <<>> \/ map_pcd = <<>> THEN s
        ELSE IF ~transformed_pcd[1].pcd \/ ~map_pcd[1].pcd THEN s
        ELSE _create_lineset_for_point_type(s, f, "matched_to_dense", dense_pt_match_mapping,
                                            transformed_pcd[1].pts, map_pcd[1].pts, age)

\* the colours an untransformed frame would hand to the match step (lines 1457-1491)
IdColorDict(ids) == [i \in 1..Len(ids) |-> <<ids[i], get_color_by_id(ids[i])>>]

\* lines 1640-1648 / 1665-1673: the colours are read off the transformed dense cloud
StoreFromGeometry(s, f, name) ==
    IF name \in DOMAIN s.geometries /\ s.geometries[name].pcd
       /\ s.geometries[name].colors # <<>>
      THEN [s EXCEPT !.td_colors = StoreDenseColors(s.td_colors, f, s.geometries[name].colors)]
      ELSE s

\* lines 1659-1673: after the transformed clouds were loaded on demand
AfterTransform(s1, f, name) ==
    IF HasColors(s1.td_colors, f) THEN s1 ELSE StoreFromGeometry(s1, f, name)

\* lines 1634-1678: make sure transformed_dense_cloud_colors[f] exists before the map is drawn
DenseColorFallback(s, f, d, age) ==
    IF TransformedDenseName(f) \in DOMAIN s.geometries
      THEN StoreFromGeometry(s, f, TransformedDenseName(f))
    ELSE IF ~d.hasT THEN s
    ELSE AfterTransform(load_and_transform_point_cloud(s, f, d, age, DefaultOffset),
                        f, TransformedDenseName(f))

\* lines 1430-1491: the transformed frame, or the untransformed one with the colours of its ids
FrameStage(s0, f, d, age, offset) ==
    IF d.hasT
      THEN _load_and_display_transformed_frame_clouds([s |-> s0, tg |-> <<>>, tp |-> <<>>],
                                                      f, d, age, offset)
      ELSE [s |-> _display_point_clouds(s0, f, FrameSide(d), "frame", FALSE,
                                        <<>>, "", FALSE, <<>>, age),
            tg |-> IdColorDict(SortedSeq(d.fg)),
            tp |-> IdColorDict(SortedSeq(d.fp))]

\* lines 1633-1678
ColorStage(s, f, d, dense_pt_match_mapping, age) ==
    IF Len(dense_pt_match_mapping) > 0 /\ ~HasColors(s.td_colors, f)
      THEN DenseColorFallback(s, f, d, age) ELSE s

\* lines 1691-1693
LinesStage(s2, f, dense_pt_match_mapping, age) ==
    IF Len(dense_pt_match_mapping) > 0
      THEN _draw_dense_pt_match_lines(s2, f, dense_pt_match_mapping, age)
      ELSE s2

\* lines 1493-1711: the match colours, the map, the match lines, the window
MapStage(st, f, d, dense_pt_match_mapping, age) ==
    EnsureWindow(
        LinesStage(
            _display_point_clouds(ColorStage(st.s, f, d, dense_pt_match_mapping, age),
                                  f, MapSide(d), "map", TRUE,
                                  BuildMapIdToColor(d, st.tg, st.tp),
                                  "map_", TRUE, dense_pt_match_mapping, age),
            f, dense_pt_match_mapping, age))

\* lines 1430-1711: a frame with id >= 1, after the registry was cleared
LoadLaterFrame(s0, f, d, age, offset) ==
    MapStage(FrameStage(s0, f, d, age, offset), f, d, DensePtMatchMapping(d), age)

\* load_and_display_frame without the special case for frame 0
load_and_display_frame_no_special_case(s, f, d, age, offset) ==
    LoadLaterFrame(clear_all_geometries(s), f, d, age, offset)

\* lines 1406-1711, after clear_all_geometries
AfterClear(s0, f, d, age, offset) ==
    IF f = 0
      THEN _display_point_clouds(EnsureWindow(s0), f, MapSide(d), "map", FALSE, <<>>, "",
                                 FALSE, <<>>, age)
      ELSE LoadLaterFrame(s0, f, d, age, offset)

load_and_display_frame(s, f, d, age, offset) ==
    AfterClear(clear_all_geometries(s), f, d, age, offset)

\* ------------------------------------------------------------ GUI panel
\* match: match_checkboxes, index -> [ct, ci, ot, oi, var]
\* uf / um: unmatched_frame_checkboxes / unmatched_map_checkboxes, [type, id] -> var
\* dense: the three dense_cloud checkbox variables (empty: the controls were not built)
\* indices: dense_cloud_point_indices;  pcd: the transformed dense cloud the controls captured
EmptyPanel ==
    [match |-> EmptyMap, uf |-> EmptyMap, um |-> EmptyMap, dense |-> EmptyMap,
     indices |-> EmptyMap, pcd |-> <<>>]

Item(type, id) == [type |-> type, id |-> id]

ShowIfHidden(s, name) == IF name \in DOMAIN s.hidden_geometries THEN show_geometry(s, name) ELSE s

HideIfVisible(s, name) == IF name \in DOMAIN s.geometries THEN hide_geometry(s, name) ELSE s

\* lines 1414-1457: the filtered cloud is built from the indices of the point type and
\* shown, and the whole transformed dense cloud is hidden
ShowFiltered(s, f, geometry_name, indices, original_pcd) ==
    HideIfVisible(
        WithInfo(add_geometry(s,
                              Geometry(geometry_name, "new", TRUE, Len(indices),
                                       [k \in 1..Len(indices) |->
                                           original_pcd.colors[indices[k] + 1]]),
                              geometry_name, NoColor),
                 geometry_name, Info("filtered_dense_cloud", f, "none", NoId)),
        TransformedDenseName(f))

\* lines 1463-1474: with no filtered cloud left visible the whole cloud comes back
ShowWholeIfNoneLeft(s1, f) ==
    IF (\A pt \in PointTypes : FilteredName(f, pt) \notin DOMAIN s1.geometries)
       /\ TransformedDenseName(f) \in DOMAIN s1.hidden_geometries
      THEN show_geometry(s1, TransformedDenseName(f)) ELSE s1

\* r is [s, err]: the visualizer state and whether the handler raised
_on_dense_cloud_checkbox_toggle(s, panel, point_type, is_selected, f, original_pcd) ==
    IF is_selected
      THEN IF FilteredName(f, point_type) \in DOMAIN s.hidden_geometries
             THEN [s |-> show_geometry(s, FilteredName(f, point_type)), err |-> FALSE]
           ELSE IF FilteredName(f, point_type) \in DOMAIN s.geometries
                   \/ point_type \notin DOMAIN panel.indices
                   \/ panel.indices[point_type] = <<>>
             THEN [s |-> s, err |-> FALSE]
           ELSE IF \E k \in 1..Len(panel.indices[point_type]) :
                       panel.indices[point_type][k] >= original_pcd.pts
             THEN [s |-> s, err |-> TRUE]
           ELSE [s |-> ShowFiltered(s, f, FilteredName(f, point_type),
                                    panel.indices[point_type], original_pcd),
                 err |-> FALSE]
      ELSE [s |-> ShowWholeIfNoneLeft(HideIfVisible(s, FilteredName(f, point_type)), f),
            err |-> FALSE]

_on_match_checkbox_toggle(s, match_data, is_selected, f) ==
    LET frame_cloud_name == FrameName(TypeName(match_data.ct), match_data.ci)
        map_cloud_name == MapName(TypeName(match_data.ot), match_data.oi)
        transformed_frame_name == TransformedName(f, TypeName(match_data.ct), match_data.ci)
    IN  IF TypeName(match_data.ct) = "unknown" \/ TypeName(match_data.ot) = "unknown" THEN s
        ELSE IF is_selected
          THEN ShowIfHidden(ShowIfHidden(ShowIfHidden(s, frame_cloud_name), map_cloud_name),
                            transformed_frame_name)
          ELSE HideIfVisible(HideIfVisible(HideIfVisible(s, frame_cloud_name), map_cloud_name),
                             transformed_frame_name)

_on_unmatched_frame_checkbox_toggle(s, item_type, item_id, is_selected, f) ==
    IF is_selected
      THEN ShowIfHidden(ShowIfHidden(s, FrameName(item_type, item_id)),
                        TransformedName(f, item_type, item_id))
      ELSE HideIfVisible(HideIfVisible(s, FrameName(item_type, item_id)),
                         TransformedName(f, item_type, item_id))

_on_unmatched_map_checkbox_toggle(s, item_type, item_id, is_selected) ==
    IF is_selected THEN ShowIfHidden(s, MapName(item_type, item_id))
    ELSE HideIfVisible(s, MapName(item_type, item_id))

\* lines 1300-1336: the indices of each point type, and the three checkboxes ticked
DensePanel(panel, transformed_dense_pcd, dense_pt_match_mapping) ==
    [panel EXCEPT
       !.indices = [pt \in PointTypes |->
           IF pt = "matched_to_dense"
             THEN [k \in 1..Len(dense_pt_match_mapping) |-> dense_pt_match_mapping[k][1]]
           ELSE IF pt = "unmatched"
             THEN SortedSeq({i \in 0..(transformed_dense_pcd.pts - 1) :
                                ~DictHas(dense_pt_match_mapping, i)})
           ELSE <<>>],
       !.dense = [pt \in PointTypes |-> TRUE],
       !.pcd = << transformed_dense_pcd >>]

WithPanel(r, panel) == [s |-> r.s, panel |-> panel, err |-> r.err]

\* lines 1385-1391: the three initial toggles, in order; a raise ends the handler
ThirdToggle(r2, panel1, f, pcd) ==
    IF r2.err THEN WithPanel(r2, panel1)
    ELSE WithPanel(_on_dense_cloud_checkbox_toggle(r2.s, panel1, "unmatched", TRUE, f, pcd),
                   panel1)

SecondToggle(r1, panel1, f, pcd) ==
    ThirdToggle(_on_dense_cloud_checkbox_toggle(r1.s, panel1, "matched_to_dense", TRUE, f, pcd),
                panel1, f, pcd)

FirstToggle(s, panel1, f, pcd) ==
    SecondToggle(_on_dense_cloud_checkbox_toggle(s, panel1, "matched_to_plane", TRUE, f, pcd),
                 panel1, f, pcd)

\* r is [s, panel, err]
_add_dense_cloud_point_controls(s, panel, f, d) ==
    LET found == FindGeometry(s, TransformedDenseName(f))
    IN  IF found = <<>> \/ ~found[1].pcd THEN [s |-> s, panel |-> panel, err |-> FALSE]
        ELSE FirstToggle(s, DensePanel(panel, found[1], ParseDense(d.dm, <<>>)), f, found[1])

_format_match_info(s, panel, f, d) ==
    LET matched_frame_ids == {<<d.pm[k].ct, d.pm[k].ci>> : k \in 1..Len(d.pm)}
        matched_map_ids == {<<d.pm[k].ot, d.pm[k].oi>> : k \in 1..Len(d.pm)}
        unmatched_frame_items ==
            {Item("ground", i) : i \in {j \in d.fg : <<GROUND, j>> \notin matched_frame_ids}}
            \cup {Item("plane", i) : i \in {j \in d.fp : <<PLANE, j>> \notin matched_frame_ids}}
        unmatched_map_items ==
            {Item("ground", i) : i \in {j \in d.mg : <<GROUND, j>> \notin matched_map_ids}}
            \cup {Item("plane", i) : i \in {j \in d.mp : <<PLANE, j>> \notin matched_map_ids}}
        panel1 == [panel EXCEPT
                     !.match = [k \in 1..Len(d.pm) |->
                                   [ct |-> d.pm[k].ct, ci |-> d.pm[k].ci, ot |-> d.pm[k].ot,
                                    oi |-> d.pm[k].oi, var |-> TRUE]],
                     !.uf = [it \in unmatched_frame_items |-> TRUE],
                     !.um = [it \in unmatched_map_items |-> TRUE]]
    IN  _add_dense_cloud_point_controls(s, panel1, f, d)

DropHidden(s, names) ==
    [s EXCEPT !.hidden_geometries = [n \in (DOMAIN s.hidden_geometries) \ names |->
                                        s.hidden_geometries[n]]]

\* lines 575-600: the filtered clouds of the last panel go, the whole cloud comes back
ClearFiltered(s, f) ==
    LET visF == {n \in DOMAIN s.geometries : n.role = "filtered"}
        hidF == {n \in DOMAIN s.hidden_geometries : n.role = "filtered"}
    IN  IF ~s.vis THEN s
        ELSE ShowIfHidden(DropHidden(RemoveEach(s, visF), hidF \ visF), TransformedDenseName(f))

PanelFor(s1, f, d) ==
    IF d.hasMatch THEN _format_match_info(s1, EmptyPanel, f, d)
    ELSE [s |-> s1, panel |-> EmptyPanel, err |-> FALSE]

_update_debug_panel(s, f, d) == PanelFor(ClearFiltered(s, f), f, d)

\* toggle_point_cloud_visibility that forgets the derived transformed entities
toggle_point_cloud_visibility_base_only(s, cloud_type, f) ==
    IF ~s.vis THEN [s |-> s, ret |-> FALSE]
    ELSE toggle_point_cloud_type(s, cloud_type)

_toggle_transformed_clouds(s, cloud_type, f, is_visible) ==
    IF is_visible
      THEN ShowEach(s, {n \in DOMAIN s.hidden_geometries : IsTransformedOfType(n, f, cloud_type)})
      ELSE HideEach(s, {n \in DOMAIN s.geometries : IsTransformedOfType(n, f, cloud_type)})

\* is_visible = toggle_point_cloud_type(cloud_type); the transformed clouds follow it
FollowKind(t, cloud_type, f) ==
    [s |-> _toggle_transformed_clouds(t.s, cloud_type, f, t.ret), ret |-> t.ret]

toggle_point_cloud_visibility(s, cloud_type, f) ==
    IF ~s.vis THEN [s |-> s, ret |-> FALSE]
    ELSE FollowKind(toggle_point_cloud_type(s, cloud_type), cloud_type, f)

\* the window check that opens load_frame and update_visualizer: poll_events() is False
WindowCheck(s, open) ==
    IF s.vis /\ ~open
      THEN [s EXCEPT !.vis = FALSE, !.geometries = EmptyMap, !.attached = EmptyBag]
      ELSE s

\* lines 369-374 and 377-382 of load_frame: the window turned out closed and the pump is
\* started again, update_visualizer() being called on the spot
PumpRestartUnguarded(s, open, run) == s.vis /\ ~open

PumpRestart(s, open, run) == s.vis /\ ~open /\ ~run

\* r is [s, panel, err]
load_frame(s, open, f, d, offset) ==
    _update_debug_panel(load_and_display_frame(WindowCheck(s, open), f, d, "new", offset), f, d)

\* ------------------------------------------------------------ object ageing
\* Objects created by the running load carry age "new"; whatever exists when a
\* load starts is "old" from then on.
Age(g) == IF g.age = "new" THEN [g EXCEPT !.age = "old"] ELSE g

RECURSIVE AgeBag(_)
AgeBag(B) ==
    IF BagToSet(B) = {} THEN EmptyBag
    ELSE LET g == CHOOSE x \in BagToSet(B) : TRUE
         IN  AgeBag([x \in BagToSet(B) \ {g} |-> B[x]]) (+) [x \in {Age(g)} |-> B[g]]

AgeAll(s) ==
    [s EXCEPT !.geometries = [n \in DOMAIN s.geometries |-> Age(s.geometries[n])],
              !.hidden_geometries = [n \in DOMAIN s.hidden_geometries |->
                  [s.hidden_geometries[n] EXCEPT !.geometry = Age(s.hidden_geometries[n].geometry)]],
              !.attached = AgeBag(s.attached)]

\* ------------------------------------------------------------ data sets
Data(fg, fp, fd, mg, mp, md, hasT, hasMatch, pm, dm) ==
    [fg |-> fg, fp |-> fp, fd |-> fd, mg |-> mg, mp |-> mp, md |-> md,
     hasT |-> hasT, hasMatch |-> hasMatch, pm |-> pm, dm |-> dm]

PlanarMatches ==
    {PlanarMatch(ct, ci, ot, oi) : ct \in {PLANE, GROUND}, ci \in Ids,
                                   ot \in {PLANE, GROUND}, oi \in NoId..MaxId}

DenseMatches == {DenseMatch(cur, other) : cur \in 0..MaxDensePts, other \in NoId..MaxDensePts}

SeqsUpTo(S, n) == UNION {[1..k -> S] : k \in 0..n}

\* directories the GUI session is explored on: a dense pair with one point match, a
\* transformed ground matched to one of two map grounds, an untransformed frame whose
\* ground is matched across kinds, and a frame without match.json
GuiData ==
    { Data({}, {}, 2, {}, {}, 2, TRUE, TRUE, <<>>, << DenseMatch(0, 0) >>),
      Data({0}, {}, 0, {0, 1}, {}, 0, TRUE, TRUE,
           << PlanarMatch(GROUND, 0, GROUND, 0) >>, <<>>),
      Data({0}, {0}, 0, {0}, {}, 0, FALSE, TRUE,
           << PlanarMatch(GROUND, 0, PLANE, 0) >>, <<>>),
      Data({}, {0}, 1, {}, {0}, 0, TRUE, FALSE, <<>>, <<>>) }

\* directories the frame pipeline is explored on: every planar layout without dense
\* clouds, and every dense layout without planar entities
PlanarData ==
    {Data(fg, fp, 0, Ids, Ids, 0, hasT, TRUE, pm, <<>>) :
        fg \in SUBSET Ids, fp \in SUBSET Ids, hasT \in BOOLEAN,
        pm \in SeqsUpTo(PlanarMatches, MaxMatches)}
    \cup {Data(fg, fp, 0, Ids, Ids, 0, hasT, FALSE, <<>>, <<>>) :
        fg \in SUBSET Ids, fp \in SUBSET Ids, hasT \in BOOLEAN}

DenseData ==
    {Data({}, {}, fd, {}, {}, md, hasT, TRUE, <<>>, dm) :
        fd \in 0..MaxDensePts, md \in 0..MaxDensePts, hasT \in BOOLEAN,
        dm \in SeqsUpTo(DenseMatches, MaxMatches)}

\* directories the offsets are explored on: grounds and a dense cloud of the frame, each
\* present or not, with or without debug.txt, with up to one dense point match
OffsetData ==
    {Data(fg, {}, fd, {0}, {}, 1, hasT, TRUE, <<>>, dm) :
        fg \in SUBSET Ids, fd \in 0..1, hasT \in BOOLEAN,
        dm \in SeqsUpTo({DenseMatch(0, 0)}, 1)}

\* ------------------------------------------------------------ state
VARIABLES data, vis, winOpen, geometries, hidden_geometries, point_cloud_info,
          original_colors, attached, td_colors, started, current_frame_index, panel, last,
          offset_var, running, pending, root, exported

vars == <<data, exported, id_colors, offset_var, running, pending, root, vis,
          winOpen, geometries, hidden_geometries, point_cloud_info,
          original_colors, attached, td_colors, started, current_frame_index, panel, last>>

\* everything but last
session == <<data, exported, id_colors, offset_var, running, pending, root, vis,
          winOpen, geometries, hidden_geometries, point_cloud_info,
             original_colors, attached, td_colors, started, current_frame_index, panel>>

\* the visualizer's fields as one record, and back
S ==
    [vis |-> vis, geometries |-> geometries, hidden_geometries |-> hidden_geometries,
     point_cloud_info |-> point_cloud_info, original_colors |-> original_colors,
     attached |-> attached, td_colors |-> td_colors]

Becomes(s) ==
    /\ vis' = s.vis
    /\ geometries' = s.geometries
    /\ hidden_geometries' = s.hidden_geometries
    /\ point_cloud_info' = s.point_cloud_info
    /\ original_colors' = s.original_colors
    /\ attached' = s.attached
    /\ td_colors' = s.td_colors

\* the handler that ran last: its name, its argument, what it returned, whether it raised
Last(op, arg, ret, err) == [op |-> op, arg |-> arg, ret |-> ret, err |-> err]

\* args: what last.arg starts as
InitState(D, args) ==
    /\ data \in D
    /\ id_colors = _generate_id_colors(PaletteSize)
    /\ offset_var = DefaultOffset
    /\ exported = EmptyMap
    /\ running = FALSE
    /\ pending = 0
    /\ root = "None"
    /\ vis = FALSE
    /\ winOpen = FALSE
    /\ geometries = EmptyMap
    /\ hidden_geometries = EmptyMap
    /\ point_cloud_info = EmptyMap
    /\ original_colors = EmptyMap
    /\ attached = EmptyBag
    /\ td_colors = EmptyMap
    /\ started = FALSE
    /\ current_frame_index = 0
    /\ panel = EmptyPanel
    /\ last \in {Last("init", arg, FALSE, FALSE) : arg \in args}

InitWith(D) == InitState(D, {""})

Init == InitWith(GuiData)

\* ------------------------------------------------------------ actions
\* PointCloudGUI.load_frame(f), whole. last.arg tells whether the window was found
\* closed, last.ret whether update_visualizer() was called from inside the handler;
\* more is the number of update_visualizer() calls the caller makes after the load
LoadPumping(f, offset, more) ==
    \E r \in {load_frame(AgeAll(S), winOpen, f, data, offset)} :
        /\ Becomes(r.s)
        /\ winOpen' = TRUE
        /\ panel' = r.panel
        /\ current_frame_index' = f
        /\ last' = Last("load", IF vis /\ ~winOpen THEN "reopened" ELSE "",
                        PumpRestart(S, winOpen, running), r.err)
        /\ running' = (running \/ PumpRestart(S, winOpen, running) \/ more > 0)
        /\ pending' = pending + more + IF PumpRestart(S, winOpen, running) THEN 1 ELSE 0
        /\ exported' = IF f = 0 THEN exported
                       ELSE ExportStage(exported, f, data.md, DensePtMatchMapping(data))
        /\ UNCHANGED <<data, id_colors>>

LoadWith(f, offset) == LoadPumping(f, offset, 0) /\ UNCHANGED root

LoadFrame(f) == LoadWith(f, offset_var) /\ UNCHANGED offset_var

\* run(): the control panel, the first load, then running = True and update_visualizer()
Run ==
    /\ ~started
    /\ started' = TRUE
    /\ root' = "Tk"
    /\ LoadPumping(0, offset_var, 1)
    /\ UNCHANGED offset_var

NextFrame ==
    /\ started
    /\ root = "Tk"
    /\ LoadFrame((current_frame_index + 1) % (MaxFrame + 1))
    /\ UNCHANGED started

PreviousFrame ==
    /\ started
    /\ root = "Tk"
    /\ LoadFrame((current_frame_index + MaxFrame) % (MaxFrame + 1))
    /\ UNCHANGED started

ResetView ==
    /\ started
    /\ root = "Tk"
    /\ ~vis
    /\ LoadFrame(current_frame_index)
    /\ UNCHANGED started

\* on_offset_change, the trace of the three spin box variables: the variable is written,
\* then the current frame is loaded again if there is a visualizer window object
OffsetChange(axis, value) ==
    /\ started
    /\ root = "Tk"
    /\ offset_var' = [offset_var EXCEPT ![axis] = value]
    /\ IF vis
         THEN LoadWith(current_frame_index, [offset_var EXCEPT ![axis] = value])
         ELSE /\ last' = Last("offset", "", FALSE, FALSE)
              /\ UNCHANGED <<data, exported, id_colors, running, pending, root, vis, winOpen,
                             geometries, hidden_geometries, point_cloud_info,
                             original_colors, attached, td_colors, current_frame_index,
                             panel>>
    /\ UNCHANGED started

ToggleKind(cloud_type) ==
    /\ started
    /\ root = "Tk"
    /\ \E r \in {toggle_point_cloud_visibility(S, cloud_type, current_frame_index)} :
           /\ Becomes(r.s)
           /\ last' = Last("toggle", cloud_type, r.ret, FALSE)
    /\ UNCHANGED <<data, exported, id_colors, offset_var, running, pending, root, winOpen, started,
                   current_frame_index, panel>>

MatchCheckbox(idx) ==
    /\ root = "Tk"
    /\ idx \in DOMAIN panel.match
    /\ LET is_selected == ~panel.match[idx].var
       IN  /\ panel' = [panel EXCEPT !.match[idx].var = is_selected]
           /\ Becomes(_on_match_checkbox_toggle(S, panel.match[idx], is_selected,
                                                current_frame_index))
    /\ last' = Last("checkbox", "", FALSE, FALSE)
    /\ UNCHANGED <<data, exported, id_colors, offset_var, running, pending, root, winOpen, started,
                   current_frame_index>>

UnmatchedFrameCheckbox(it) ==
    /\ root = "Tk"
    /\ it \in DOMAIN panel.uf
    /\ LET is_selected == ~panel.uf[it]
       IN  /\ panel' = [panel EXCEPT !.uf[it] = is_selected]
           /\ Becomes(_on_unmatched_frame_checkbox_toggle(S, it.type, it.id, is_selected,
                                                          current_frame_index))
    /\ last' = Last("checkbox", "", FALSE, FALSE)
    /\ UNCHANGED <<data, exported, id_colors, offset_var, running, pending, root, winOpen, started,
                   current_frame_index>>

UnmatchedMapCheckbox(it) ==
    /\ root = "Tk"
    /\ it \in DOMAIN panel.um
    /\ LET is_selected == ~panel.um[it]
       IN  /\ panel' = [panel EXCEPT !.um[it] = is_selected]
           /\ Becomes(_on_unmatched_map_checkbox_toggle(S, it.type, it.id, is_selected))
    /\ last' = Last("checkbox", "", FALSE, FALSE)
    /\ UNCHANGED <<data, exported, id_colors, offset_var, running, pending, root, winOpen, started,
                   current_frame_index>>

DenseCheckbox(pt) ==
    /\ root = "Tk"
    /\ pt \in DOMAIN panel.dense
    /\ \E r \in {_on_dense_cloud_checkbox_toggle(S, panel, pt, ~panel.dense[pt],
                                                 current_frame_index, panel.pcd[1])} :
           /\ panel' = [panel EXCEPT !.dense[pt] = ~panel.dense[pt]]
           /\ Becomes(r.s)
           /\ last' = Last("checkbox", "", FALSE, r.err)
    /\ UNCHANGED <<data, exported, id_colors, offset_var, running, pending, root, winOpen, started,
                   current_frame_index>>

\* the user closes the render window
CloseWindow ==
    /\ vis
    /\ winOpen
    /\ winOpen' = FALSE
    /\ UNCHANGED <<data, exported, id_colors, offset_var, running, pending, root, vis, geometries,
                   hidden_geometries, point_cloud_info, original_colors, attached, td_colors,
                   started, current_frame_index, panel, last>>

\* PointCloudGUI.update_visualizer, one tick of the 16 ms pump: a callback registered
\* with root.after fires; it registers itself again while running
PumpTick ==
    /\ pending > 0
    /\ root = "Tk"
    /\ Becomes(IF running THEN WindowCheck(S, winOpen) ELSE S)
    /\ pending' = (pending - 1) + IF running THEN 1 ELSE 0
    /\ UNCHANGED <<data, exported, id_colors, offset_var, running, root, winOpen, started,
                   current_frame_index, panel, last>>

\* on_closing, the exit button and the close box of the control panel: the visualizer is
\* destroyed, then root.quit() and root.destroy(), which drops the callbacks still pending
OnClosing ==
    /\ started
    /\ root = "Tk"
    /\ running' = FALSE
    /\ Becomes(IF vis THEN [S EXCEPT !.vis = FALSE, !.geometries = EmptyMap,
                                     !.attached = EmptyBag]
                ELSE S)
    /\ winOpen' = FALSE
    /\ root' = "destroyed"
    /\ pending' = 0
    /\ last' = Last("closing", "", FALSE, FALSE)
    /\ UNCHANGED <<data, exported, id_colors, offset_var, started, current_frame_index, panel>>

Next ==
    \/ Run
    \/ NextFrame
    \/ PreviousFrame
    \/ ResetView
    \/ \E cloud_type \in {"ground", "plane", "dense_cloud"} : ToggleKind(cloud_type)
    \/ \E idx \in 1..MaxMatches : MatchCheckbox(idx)
    \/ \E it \in {Item(k, i) : k \in Kinds, i \in Ids} : UnmatchedFrameCheckbox(it)
    \/ \E it \in {Item(k, i) : k \in Kinds, i \in Ids} : UnmatchedMapCheckbox(it)
    \/ \E pt \in PointTypes : DenseCheckbox(pt)
    \/ CloseWindow
    \/ PumpTick
    \/ OnClosing

Spec == Init /\ [][Next]_vars

\* the frame pipeline alone, over every directory layout
InitLoad == InitWith(PlanarData \cup DenseData)

NextLoad ==
    \/ Run
    \/ NextFrame
    \/ PreviousFrame

SpecLoad == InitLoad /\ [][NextLoad]_vars

\* frame loads under changing offsets: the session with the three spin boxes in use
InitOffset == InitWith(OffsetData)

NextOffset ==
    \/ Run
    \/ NextFrame
    \/ PreviousFrame
    \/ \E axis \in 1..3 : \E value \in {DefaultOffset[axis], AltOffset} :
           OffsetChange(axis, value)

SpecOffset == InitOffset /\ [][NextOffset]_vars

\* the colour functions, the match export and the folder loader called on their own:
\* the initial state holds the call, [fn, x], and one step makes it
CallIds == (0 - MaxCallId)..MaxCallId

CallCounts == (0..MaxCount) \cup {LargeCount}

\* dicts cur_id -> other_id of up to MaxMatches entries, other ids out of range included
CallMappings ==
    {m \in SeqsUpTo((0..MaxDensePts) \X (NoId..MaxPoints), MaxMatches) :
        \A a, b \in 1..Len(m) : m[a][1] = m[b][1] => a = b}

\* the .ply files of one kind in a folder: any ids, any point counts, empty files included
FileLists(ids) ==
    UNION {{[i \in 1..Cardinality(I) |->
                [id |-> SortedSeq(I)[i], pts |-> c[SortedSeq(I)[i]]]] : c \in [I -> 0..PlanePts]} :
           I \in SUBSET ids}

CallFiles ==
    [dense_cloud : FileLists({NoId}), ground : FileLists(Ids), plane : FileLists(Ids)]

\* dicts over some of the keys, in the order of keys, with values from vals
DictOver(keys, K, f) ==
    [i \in 1..Len(SelectSeq(keys, LAMBDA k : k \in K)) |->
        <<SelectSeq(keys, LAMBDA k : k \in K)[i], f[SelectSeq(keys, LAMBDA k : k \in K)[i]]>>]

Dicts(keys, vals) ==
    UNION {{DictOver(keys, K, f) : f \in [K -> vals]} :
           K \in SUBSET {keys[i] : i \in 1..Len(keys)}}

\* quaternions with integer components, components missing included
CallQuaternions == Dicts(<<"w", "x", "y", "z">>, (0 - MaxQ)..MaxQ)

\* transform dicts: 'q' and 't' each present or not, 't' with some of 'a', 'b', 'c'
CallTransforms ==
    {<<>>} \cup {<< <<"q", q>> >> : q \in CallQuaternions}
           \cup {<< <<"t", t>> >> : t \in Dicts(<<"a", "b", "c">>, 1..MaxT)}
           \cup {<< <<"q", q>>, <<"t", t>> >> :
                     q \in CallQuaternions, t \in Dicts(<<"a", "b", "c">>, 1..MaxT)}

CallsOf(fn, X) == {[fn |-> fn, x |-> x] : x \in X}

EmptyFolder == Data({}, {}, 0, {}, {}, 0, FALSE, FALSE, <<>>, <<>>)

Pending(fn) == last.op = "init" /\ last.arg.fn = fn

GetColorById ==
    /\ Pending("get_color_by_id")
    /\ last' = Last("get_color_by_id", last.arg.x, get_color_by_id(last.arg.x), FALSE)
    /\ UNCHANGED session

GenerateDistinctColors ==
    /\ Pending("generate_distinct_colors")
    /\ last' = Last("generate_distinct_colors", last.arg.x,
                    generate_distinct_colors(last.arg.x), FALSE)
    /\ UNCHANGED session

SaveMatchedAndUnmatchedPoints ==
    /\ Pending("_save_matched_and_unmatched_points")
    /\ last' = Last("_save_matched_and_unmatched_points", last.arg.x,
                    _save_matched_and_unmatched_points(last.arg.x.num_points,
                                                       last.arg.x.mapping), FALSE)
    /\ UNCHANGED session

LoadFrameData ==
    /\ Pending("load_frame_data")
    /\ \E r \in {load_frame_data(last.arg.x)} :
           last' = Last("load_frame_data", last.arg.x, r, r.err)
    /\ UNCHANGED session

QuaternionToRotationMatrix ==
    /\ Pending("quaternion_to_rotation_matrix")
    /\ last' = Last("quaternion_to_rotation_matrix", last.arg.x,
                    quaternion_to_rotation_matrix(last.arg.x), FALSE)
    /\ UNCHANGED session

TransformToMatrix ==
    /\ Pending("transform_to_matrix")
    /\ last' = Last("transform_to_matrix", last.arg.x,
                    transform_to_matrix(last.arg.x), FALSE)
    /\ UNCHANGED session

InitCall ==
    \/ InitState({EmptyFolder}, CallsOf("get_color_by_id", CallIds))
    \/ InitState({EmptyFolder}, CallsOf("generate_distinct_colors", CallCounts))
    \/ InitState({EmptyFolder}, CallsOf("_save_matched_and_unmatched_points",
                                        [num_points : 0..MaxPoints, mapping : CallMappings]))
    \/ InitState({EmptyFolder}, CallsOf("load_frame_data", CallFiles))
    \/ InitState({EmptyFolder}, CallsOf("quaternion_to_rotation_matrix", CallQuaternions))
    \/ InitState({EmptyFolder}, CallsOf("transform_to_matrix", CallTransforms))

NextCall ==
    \/ GetColorById
    \/ GenerateDistinctColors
    \/ SaveMatchedAndUnmatchedPoints
    \/ LoadFrameData
    \/ QuaternionToRotationMatrix
    \/ TransformToMatrix

SpecCall == InitCall /\ [][NextCall]_vars

\* ------------------------------------------------------------ claims
\* C1: after any sequence of handlers (frame loads, kind toggles, checkbox toggles, a
\* render-window close followed by a reload) no entity name is a key of the visible set
\* and of the hidden set at the same time.
C1_NoNameInBoth == (DOMAIN geometries) \cap (DOMAIN hidden_geometries) = {}

\* every name the session has used so far
KnownNames ==
    (DOMAIN geometries) \cup (DOMAIN hidden_geometries)
    \cup (DOMAIN point_cloud_info) \cup (DOMAIN original_colors)

CloudTypes == {"ground", "plane", "dense_cloud"}

\* C2: hide_geometry and show_geometry are idempotent: hiding twice leaves the state of
\* hiding once; hide_geometry on a name that is not visible (already hidden or unknown)
\* changes nothing, captured colours included; show_geometry on a name that is not hidden
\* changes nothing.
C2_Idempotent ==
    \A n \in KnownNames :
        /\ hide_geometry(hide_geometry(S, n), n) = hide_geometry(S, n)
        /\ n \notin DOMAIN geometries => hide_geometry(S, n) = S
        /\ n \notin DOMAIN hidden_geometries => show_geometry(S, n) = S

\* an entity hidden by a handler, with captured per-point colours, in an open window
C2_Witness ==
    /\ vis
    /\ last.op \in {"toggle", "checkbox"}
    /\ \E n \in (DOMAIN hidden_geometries) \ (DOMAIN geometries) :
           hidden_geometries[n].color_array # <<>>

\* C3: for every visible entity, hide_geometry then show_geometry brings it back to the
\* visible set (and out of the hidden set) with the same geometry object, the same
\* point_cloud_info record and the colour array it had, whether uniform or per point.
C3_HideShowRestores ==
    vis => \A n \in DOMAIN geometries :
             LET h == hide_geometry(S, n)
                 r == show_geometry(h, n)
             IN  /\ n \in DOMAIN h.hidden_geometries
                 /\ n \notin DOMAIN h.geometries
                 /\ n \in DOMAIN r.geometries
                 /\ n \notin DOMAIN r.hidden_geometries
                 /\ r.geometries[n] = geometries[n]
                 /\ InfoGet(r.point_cloud_info, n) = InfoGet(point_cloud_info, n)
                 /\ r.attached = attached

\* a kind was shown again by the toggle: one of its entities is visible with per-point
\* colours, another with a uniform colour and an info record
C3_Witness ==
    /\ vis
    /\ last.op = "toggle"
    /\ last.ret
    /\ \E n \in DOMAIN geometries :
           /\ IsTypeName(n, last.arg)
           /\ n \in DOMAIN point_cloud_info
           /\ ~AllSame(geometries[n].colors)

\* C4: while a render window exists the renderer holds exactly the values of the visible
\* set, each once; without a window it holds nothing; and add_geometry under a name that
\* is registered replaces the old geometry in the renderer and the registry.
C4_AttachedIsVisible ==
    /\ vis => attached = SetToBag({geometries[n] : n \in DOMAIN geometries})
    /\ ~vis => attached = EmptyBag
    /\ vis => \A n \in DOMAIN geometries :
                 LET r == add_geometry(S, [geometries[n] EXCEPT !.age = "again"], n, RED)
                 IN  r.attached = SetToBag({r.geometries[m] : m \in DOMAIN r.geometries})

\* entities were hidden and others stay drawn
C4_Witness ==
    /\ vis
    /\ last.op = "checkbox"
    /\ hidden_geometries # EmptyMap
    /\ \E n \in DOMAIN geometries : n \notin coordinate_names

OfType(names, cloud_type) == {n \in names : IsTypeName(n, cloud_type)}

\* C5: toggle_point_cloud_type(kind), called with a render window as the GUI calls it:
\* if an entity of the kind is visible all visible ones are hidden and FALSE is returned;
\* otherwise all hidden ones are shown and TRUE is returned; with no entity of the kind
\* nothing changes and FALSE is returned.  Afterwards every entity of the kind has the
\* visibility the result tells, and entities of other kinds are unchanged.
C5_ToggleType ==
    vis => \A k \in CloudTypes :
             LET t == toggle_point_cloud_type(S, k)
                 V == OfType(DOMAIN geometries, k)
                 H == OfType(DOMAIN hidden_geometries, k)
                 after == OfType((DOMAIN t.s.geometries) \cup (DOMAIN t.s.hidden_geometries), k)
             IN  /\ V # {} => ~t.ret
                 /\ (V = {} /\ H # {}) => t.ret
                 /\ (V = {} /\ H = {}) => (~t.ret /\ t.s = S)
                 /\ after = V \cup H
                 /\ \A n \in after : /\ (n \in DOMAIN t.s.geometries) = t.ret
                                     /\ (n \in DOMAIN t.s.hidden_geometries) = ~t.ret
                 /\ \A n \in ((DOMAIN geometries) \cup (DOMAIN t.s.geometries)) \ after :
                        /\ n \in DOMAIN geometries
                        /\ n \in DOMAIN t.s.geometries
                        /\ t.s.geometries[n] = geometries[n]
                 /\ \A n \in ((DOMAIN hidden_geometries) \cup (DOMAIN t.s.hidden_geometries)) \ after :
                        /\ n \in DOMAIN hidden_geometries
                        /\ n \in DOMAIN t.s.hidden_geometries
                        /\ t.s.hidden_geometries[n] = hidden_geometries[n]

\* the toggle hid a kind that has a frame-named and a map-named entity
C5_Witness ==
    /\ vis
    /\ last.op = "toggle"
    /\ ~last.ret
    /\ \E n, m \in DOMAIN hidden_geometries :
           /\ IsTypeName(n, last.arg) /\ n.role = "frame"
           /\ IsTypeName(m, last.arg) /\ m.role = "map"

\* C6: after toggle_point_cloud_visibility(kind) on the current frame every transformed
\* entity of the kind and frame is visible exactly if the call returned TRUE, which is the
\* visibility of every base (frame or map) entity of the kind.
C6_TransformedFollowKind ==
    (vis /\ last.op = "toggle") =>
        \A n \in (DOMAIN geometries) \cup (DOMAIN hidden_geometries) :
            IsTransformedOfType(n, current_frame_index, last.arg) =>
                /\ (n \in DOMAIN geometries) = last.ret
                /\ (n \in DOMAIN hidden_geometries) = ~last.ret
                /\ \A b \in OfType((DOMAIN geometries) \cup (DOMAIN hidden_geometries), last.arg) :
                       (b \in DOMAIN geometries) = (n \in DOMAIN geometries)

\* the toggle hid a kind: a transformed entity and a base entity of it are hidden
C6_Witness ==
    /\ vis
    /\ last.op = "toggle"
    /\ ~last.ret
    /\ \E n \in DOMAIN hidden_geometries :
           IsTransformedOfType(n, current_frame_index, last.arg)
    /\ OfType(DOMAIN hidden_geometries, last.arg) # {}

\* C7: after every frame load, also one that follows a render-window close, nothing of
\* the time before the load is left: the visible set holds the axis helpers and objects
\* of this load only, and the hidden set holds no object from before the load.
C7_NothingLeftOver ==
    last.op = "load" =>
        /\ \A n \in (DOMAIN geometries) \ coordinate_names : geometries[n].age = "new"
        /\ \A n \in DOMAIN hidden_geometries : hidden_geometries[n].geometry.age = "new"

Colors(n) == geometries[n].colors

Uniform(n, color) == Colors(n) = Tile(color, geometries[n].pts)

\* C8: after a load of frame 0 only map data is registered: every entity carries
\* frame_type 'map', none is a transformed_cloud_*, a match-line or a filtered cloud, no
\* transform colours were stored for the frame, every ground and plane entity has the
\* palette colour get_color_by_id(id) and no point of any entity is pure red.
C8_FrameZeroMapOnly ==
    (last.op = "load" /\ current_frame_index = 0) =>
        /\ \A n \in (DOMAIN geometries) \ coordinate_names :
               /\ InfoGet(point_cloud_info, n).frame_type = "map"
               /\ n.role \notin {"transformed", "lines", "filtered"}
               /\ n.kind \in Kinds => Uniform(n, get_color_by_id(n.id))
               /\ \A j \in 1..Len(Colors(n)) : Colors(n)[j] # RED
        /\ \A n \in DOMAIN hidden_geometries : n.role \notin {"transformed", "lines", "filtered"}
        /\ 0 \notin DOMAIN td_colors

\* frame 0 shown again after a later frame with a transform and matches was shown
C8_Witness ==
    /\ last.op = "load"
    /\ current_frame_index = 0
    /\ data.hasT
    /\ data.pm # <<>>
    /\ \E n \in DOMAIN point_cloud_info : n.role = "transformed"
    /\ \E n \in DOMAIN geometries : n.kind = "ground"
    /\ \E n \in DOMAIN geometries : n.kind = "plane"

\* a planar match the loader is to honour: a map id >= 0, the same kind on both sides
ValidMatch(m) == m.oi >= 0 /\ m.ct = m.ot

FrameIds(d, t) == IF t = GROUND THEN d.fg ELSE d.fp

MapIds(d, t) == IF t = GROUND THEN d.mg ELSE d.mp

\* C9: after a load of a frame f >= 1 with a transform, for every valid planar match
\* (kind, i) -> (kind, j) whose frame entity and map entity exist, map_{kind}_{j} has the
\* colour of transformed_cloud_{f}_T_opt_w_b_{kind}_{i}; for every match of the table.
C9_MatchedMapColour ==
    (last.op = "load" /\ current_frame_index >= 1 /\ data.hasT /\ data.hasMatch) =>
        \A k \in 1..Len(data.pm) :
            LET m == data.pm[k]
                cur == TransformedName(current_frame_index, TypeName(m.ct), m.ci)
                other == MapName(TypeName(m.ot), m.oi)
            IN  (ValidMatch(m) /\ m.ci \in FrameIds(data, m.ct) /\ m.oi \in MapIds(data, m.ot)) =>
                    /\ cur \in DOMAIN geometries
                    /\ other \in DOMAIN geometries
                    /\ Uniform(other, Colors(cur)[1])

\* C10: after a load of a frame f >= 1 every map ground or plane entity whose (kind, id)
\* is the `other` of no planar match with a map id >= 0 is pure red; a ground match leaves
\* the map plane of the same id red, and the other way round.
C10_UnmatchedMapRed ==
    (last.op = "load" /\ current_frame_index >= 1) =>
        \A n \in DOMAIN geometries :
            (/\ n.role = "map"
             /\ n.kind \in Kinds
             /\ ~\E k \in 1..Len(data.pm) :
                    /\ data.pm[k].oi >= 0
                    /\ TypeName(data.pm[k].ot) = n.kind
                    /\ data.pm[k].oi = n.id)
            => Uniform(n, RED)

\* the transformed points the match table pairs with map dense point j: pairs (i, j) of
\* the table with i an index of the transformed cloud
DenseSources(d, j) ==
    IF d.hasMatch
      THEN {d.dm[k].cur : k \in {k \in 1..Len(d.dm) : d.dm[k].other = j /\ d.dm[k].cur < d.fd}}
      ELSE {}

\* the per-point colours of the transformed dense cloud of frame f, shown or hidden
TransformedDenseColors(f) ==
    IF TransformedDenseName(f) \in DOMAIN geometries
      THEN Colors(TransformedDenseName(f))
    ELSE IF TransformedDenseName(f) \in DOMAIN hidden_geometries
      THEN hidden_geometries[TransformedDenseName(f)].geometry.colors
    ELSE <<>>

\* C11: after a load of a frame f >= 1 with a transform, every point j of map_dense_cloud
\* that the match table pairs with a point of the transformed dense cloud has the colour
\* of such a point, and every other point of map_dense_cloud is pure red.
C11_MapDenseColour ==
    (/\ last.op = "load"
     /\ current_frame_index >= 1
     /\ data.hasT
     /\ DenseName("map_") \in DOMAIN geometries) =>
        \A j \in 0..(data.md - 1) :
            IF DenseSources(data, j) = {}
              THEN Colors(DenseName("map_"))[j + 1] = RED
              ELSE /\ TransformedDenseColors(current_frame_index) # <<>>
                   /\ \E i \in DenseSources(data, j) :
                          Colors(DenseName("map_"))[j + 1]
                            = TransformedDenseColors(current_frame_index)[i + 1]

\* the match table is absent, or none of its entries names a map id >= 0
NoValidMatch(d) ==
    \/ ~d.hasMatch
    \/ /\ \A k \in 1..Len(d.pm) : d.pm[k].oi < 0
       /\ \A k \in 1..Len(d.dm) : d.dm[k].other < 0

\* C12: after a load of a frame f >= 1 whose match table is absent or holds no valid match
\* the map was drawn all unmatched: every map ground, every map plane and every point of
\* map_dense_cloud is pure red, and the load raised no error.
C12_NoMatchAllRed ==
    (last.op = "load" /\ current_frame_index >= 1 /\ NoValidMatch(data)) =>
        /\ ~last.err
        /\ \A n \in DOMAIN geometries : n.role = "map" => Uniform(n, RED)
        /\ data.md > 0 => DenseName("map_") \in DOMAIN geometries
        /\ \A id \in data.mg : MapName("ground", id) \in DOMAIN geometries
        /\ \A id \in data.mp : MapName("plane", id) \in DOMAIN geometries

\* C13: after a load of a frame f >= 1 without T_opt_w_b the untransformed frame entities
\* are shown in the palette colours of their ids, no transformed_cloud_* entity and no
\* match line exists, no map entity has a colour that came through a match (a map ground
\* or plane is red or has the palette colour of its own id, the map dense cloud is red or
\* has the default dense colour), and the load raised no error.
C13_NoTransformFallback ==
    (last.op = "load" /\ current_frame_index >= 1 /\ ~data.hasT) =>
        /\ ~last.err
        /\ \A k \in Kinds : \A id \in FrameIds(data, IF k = "ground" THEN GROUND ELSE PLANE) :
               /\ FrameName(k, id) \in DOMAIN geometries
               /\ Uniform(FrameName(k, id), get_color_by_id(id))
        /\ \A n \in (DOMAIN geometries) \cup (DOMAIN hidden_geometries) :
               n.role \notin {"transformed", "lines", "filtered"}
        /\ \A n \in DOMAIN geometries :
               (n.role = "map" /\ n.kind \in Kinds) =>
                   Uniform(n, RED) \/ Uniform(n, get_color_by_id(n.id))
        /\ DenseName("map_") \in DOMAIN geometries =>
               Uniform(DenseName("map_"), RED) \/ Uniform(DenseName("map_"), DENSE_DEFAULT)

\* C14: for every map dense cloud of N points and every mapping handed to
\* _save_matched_and_unmatched_points, matched_map_ids and unmatched_map_ids are disjoint,
\* together they are exactly 0..N-1, and matched_map_ids is exactly the set of the other
\* ids of the mapping that lie in 0..N-1.
C14_ExportPartition ==
    last.op = "_save_matched_and_unmatched_points" =>
        /\ last.ret.matched_map_ids \cap last.ret.unmatched_map_ids = {}
        /\ last.ret.matched_map_ids \cup last.ret.unmatched_map_ids
             = 0..(last.arg.num_points - 1)
        /\ last.ret.matched_map_ids
             = {j \in 0..(last.arg.num_points - 1) :
                   \E k \in 1..Len(last.arg.mapping) : last.arg.mapping[k][2] = j}

\* a mapping with an other id inside the cloud and one outside it, some point left unmatched
C14_Witness ==
    /\ last.op = "_save_matched_and_unmatched_points"
    /\ \E k \in 1..Len(last.arg.mapping) : last.arg.mapping[k][2] >= last.arg.num_points
    /\ last.ret.matched_map_ids # {}
    /\ last.ret.unmatched_map_ids # {}

\* the pairs of the dense match table with both indices inside their clouds
ValidDensePairs(d) ==
    IF d.hasMatch
      THEN {<<d.dm[k].cur, d.dm[k].other>> :
               k \in {k \in 1..Len(d.dm) : /\ d.dm[k].cur < d.fd
                                           /\ d.dm[k].other >= 0
                                           /\ d.dm[k].other < d.md}}
      ELSE {}

\* the number of segments of the match-line set of frame f, shown or hidden; 0 if none
Segments(f) ==
    IF LinesName(f, "matched_to_dense") \in DOMAIN geometries
      THEN geometries[LinesName(f, "matched_to_dense")].pts
    ELSE IF LinesName(f, "matched_to_dense") \in DOMAIN hidden_geometries
      THEN hidden_geometries[LinesName(f, "matched_to_dense")].geometry.pts
    ELSE 0

\* C15: after a load of a frame f >= 1 with a transform the match-line set holds exactly
\* one segment per pair (cur, other) of the dense match table with 0 <= cur < |transformed
\* points| and 0 <= other < |map points|, and none for any other pair: as many segments as
\* valid pairs, never more than the table has entries.
C15_OneSegmentPerValidMatch ==
    (last.op = "load" /\ current_frame_index >= 1 /\ data.hasT) =>
        /\ Segments(current_frame_index) = Cardinality(ValidDensePairs(data))
        /\ Segments(current_frame_index) <= Len(data.dm)

\* an entry of the dense match table whose cur or other index lies outside its cloud
OutOfRange(d, m) == m.cur >= d.fd \/ m.other >= d.md

\* the out-of-range entries left no trace: no segment without a valid pair, no colour on a
\* map dense point without a valid pair, no filtered cloud larger than the transformed one
SkippedEverywhere ==
    /\ Segments(current_frame_index) <= Cardinality(ValidDensePairs(data))
    /\ DenseName("map_") \in DOMAIN geometries =>
           \A j \in 0..(data.md - 1) :
               DenseSources(data, j) = {} =>
                   Colors(DenseName("map_"))[j + 1] \in {RED, DENSE_DEFAULT}
    /\ \A n \in DOMAIN geometries : n.role = "filtered" => geometries[n].pts <= data.fd

\* C16: after a load of a frame f >= 1 whose dense match table holds an entry with cur or
\* other out of range, that entry was skipped by the map colouring, the line builder and
\* the filtered dense clouds of the panel, the map was displayed and no error was raised.
C16_OutOfRangeSkipped ==
    (/\ last.op = "load"
     /\ current_frame_index >= 1
     /\ data.hasT
     /\ data.hasMatch
     /\ \E k \in 1..Len(data.dm) : OutOfRange(data, data.dm[k])) =>
        /\ ~last.err
        /\ SkippedEverywhere
        /\ data.md > 0 => DenseName("map_") \in DOMAIN geometries

\* the files of a list that hold at least one point
NonEmpty(files) == SelectSeq(files, LAMBDA file : file.pts > 0)

\* C17: load_frame_data returns normally whatever the files hold, and its result has
\* exactly the entities whose file parses to at least one point: a file of zero points
\* counts as an absent entity and the others are loaded.
C17_EmptyFileIsAbsent ==
    last.op = "load_frame_data" =>
        /\ ~last.err
        /\ last.ret.dense_cloud = NonEmpty(last.arg.dense_cloud)
        /\ last.ret.grounds = NonEmpty(last.arg.ground)
        /\ last.ret.planes = NonEmpty(last.arg.plane)

\* the hue of an RGB colour, in 1/HueScale of a turn (0 for a gray)
HueFrom(rgb, mx, d) ==
    IF d = 0 THEN 0
    ELSE IF mx = rgb[1] THEN (((rgb[2] - rgb[3]) * Sector) \div d + HueScale) % HueScale
    ELSE IF mx = rgb[2] THEN 2 * Sector + ((rgb[3] - rgb[1]) * Sector) \div d
    ELSE 4 * Sector + ((rgb[1] - rgb[2]) * Sector) \div d

HueOf(rgb) ==
    HueFrom(rgb, Max2(rgb[1], Max2(rgb[2], rgb[3])),
            Max2(rgb[1], Max2(rgb[2], rgb[3])) - Min2(rgb[1], Min2(rgb[2], rgb[3])))

\* the reserved red band [0, 20] and [340, 360] degrees, ends included
InRedBand(hue) == hue <= (20 * HueScale) \div 360 \/ hue >= (340 * HueScale) \div 360

\* C18: for every id >= 0 the hue of get_color_by_id(id) lies outside the reserved red
\* band [0, 20] and [340, 360] degrees.
C18_PaletteOutsideRedBand ==
    (last.op = "get_color_by_id" /\ last.arg >= 0) => ~InRedBand(HueOf(last.ret))

\* some point of the colour array is pure red
HasRed(colors) == \E j \in 1..Len(colors) : colors[j] = RED

\* neither colour function returned pure red
NoRedProduced ==
    /\ last.op = "get_color_by_id" => last.ret # RED
    /\ last.op = "generate_distinct_colors" => ~HasRed(last.ret)

\* no entity of the frame or of the transformed frame, shown or hidden, has a red point
NoRedFrameEntity ==
    /\ \A n \in DOMAIN geometries :
           n.role \in {"frame", "transformed"} => ~HasRed(Colors(n))
    /\ \A n \in DOMAIN hidden_geometries :
           n.role \in {"frame", "transformed"} => ~HasRed(hidden_geometries[n].geometry.colors)

\* a map ground or plane is red only if no valid match of an existing frame entity names
\* it, a map dense point only if no valid pair of the dense table names it
RedMeansUnmatched ==
    (last.op = "load" /\ current_frame_index >= 1 /\ data.hasMatch) =>
        /\ \A k \in 1..Len(data.pm) :
               (/\ ValidMatch(data.pm[k])
                /\ data.pm[k].ci \in FrameIds(data, data.pm[k].ct)
                /\ MapName(TypeName(data.pm[k].ot), data.pm[k].oi) \in DOMAIN geometries)
               => ~Uniform(MapName(TypeName(data.pm[k].ot), data.pm[k].oi), RED)
        /\ (data.hasT /\ DenseName("map_") \in DOMAIN geometries) =>
               \A j \in 0..(data.md - 1) :
                   Colors(DenseName("map_"))[j + 1] = RED => DenseSources(data, j) = {}

\* C19: get_color_by_id returns pure red for no id and generate_distinct_colors for no
\* count and no index; no entity of the frame or of the transformed frame has a pure red
\* point; a pure red map entity or map dense point is an unmatched one.
C19_RedIsReserved == NoRedProduced /\ NoRedFrameEntity /\ RedMeansUnmatched

\* the palette __init__ builds
Palette == _generate_id_colors(PaletteSize)

Identity3 == << << <<1, 1>>, <<0, 1>>, <<0, 1>> >>,
                << <<0, 1>>, <<1, 1>>, <<0, 1>> >>,
                << <<0, 1>>, <<0, 1>>, <<1, 1>> >> >>

\* the quaternion a call was made with, its components and the square of its norm
QuatNormSquared(q) ==
    NormSquared(GetOr(q, "w", 0), GetOr(q, "x", 0), GetOr(q, "y", 0), GetOr(q, "z", 0))

\* R * R^T = I for a matrix whose entries share the denominator of R[1][1]: the rows are
\* unit vectors, pairwise orthogonal, which the matrix of a quaternion is iff the
\* quaternion has norm 1
Orthonormal(R) ==
    \A i, j \in 1..3 :
        /\ R[i][j][2] = R[1][1][2]
        /\ R[1][1][2] > 0
        /\ R[i][1][1] * R[j][1][1] + R[i][2][1] * R[j][2][1] + R[i][3][1] * R[j][3][1]
               = IF i = j THEN R[1][1][2] * R[1][1][2] ELSE 0

TransformedEntities ==
    {geometries[n] : n \in {m \in DOMAIN geometries : m.role = "transformed"}}
    \cup {hidden_geometries[n].geometry :
              n \in {m \in DOMAIN hidden_geometries : m.role = "transformed"}}

\* C22: after any sequence of offset changes and frame loads, the points of every
\* transformed-role entity are T*p + (dx,dy,dz) for the transform T of the frame just
\* loaded and the offset the spin boxes hold now.
C22_OffsetAfterTransform ==
    (last.op = "load" /\ ~last.err) =>
        \A g \in TransformedEntities :
            g.moved = [T |-> current_frame_index, by |-> offset_var]

\* the role the registry records for an entity: frame_type of its point_cloud_info, or
\* 'transformed' for the type transformed_cloud
RecordedRole(n) ==
    IF InfoGet(point_cloud_info, n).type = "transformed_cloud" THEN "transformed"
    ELSE InfoGet(point_cloud_info, n).frame_type

\* C23: every entity load_and_display_frame registers as a map entity has a name that
\* begins with 'map_', for every frame id, frame 0 included; frame entities are named
\* {kind}_{id} or dense_cloud and transformed entities transformed_cloud_...: the role
\* can be read from the name.
C23_RoleReadFromName ==
    \A n \in (DOMAIN geometries) \cup (DOMAIN hidden_geometries) :
        /\ RecordedRole(n) = "map" => n.role = "map"
        /\ RecordedRole(n) = "frame" => n.role = "frame"
        /\ RecordedRole(n) = "transformed" => n.role = "transformed"

\* the (kind, id) items of a set of file ids per kind that are on no match's given side
OffSide(grounds, planes, side) ==
    {Item("ground", i) : i \in {j \in grounds : <<GROUND, j>> \notin side}}
    \cup {Item("plane", i) : i \in {j \in planes : <<PLANE, j>> \notin side}}

\* the panel lists as unmatched exactly the frame entities that are the cur of no planar
\* match and the map entities that are the other of none
ListsByMatchSide ==
    /\ DOMAIN panel.uf =
           OffSide(data.fg, data.fp, {<<data.pm[k].ct, data.pm[k].ci>> : k \in 1..Len(data.pm)})
    /\ DOMAIN panel.um =
           OffSide(data.mg, data.mp, {<<data.pm[k].ot, data.pm[k].oi>> : k \in 1..Len(data.pm)})

\* a map ground or plane entity is listed as unmatched exactly when it is pure red
UnmatchedMeansRed ==
    \A n \in DOMAIN geometries :
        (n.role = "map" /\ n.kind \in Kinds) =>
            (Item(n.kind, n.id) \in DOMAIN panel.um <=> Uniform(n, RED))

\* C24: after a load of a frame f >= 1 with a match table, a frame ground/plane is in the
\* unmatched-frame list iff its (kind, id) is the cur of no planar match, a map
\* ground/plane is in the unmatched-map list iff its (kind, id) is the other of none, and
\* a map entity is listed as unmatched exactly when it is displayed pure red.
C24_PanelAgreesWithColours ==
    (last.op = "load" /\ ~last.err /\ current_frame_index >= 1 /\ data.hasMatch) =>
        ListsByMatchSide /\ UnmatchedMeansRed

\* C25: at every moment at most one update_visualizer callback is pending, whatever run,
\* the window-recovery branch of load_frame and the ticks did before, and no frame load
\* calls update_visualizer from inside (the handlers are callbacks of the one Tk loop and
\* run to their end before the next callback starts).
C25_OnePumpLoop == pending <= 1 /\ (last.op = "load" => ~last.ret)

\* a frame was loaded after the render window was found closed, with the pump running
C25_Witness ==
    /\ last.op = "load"
    /\ last.arg = "reopened"
    /\ running
    /\ pending = 1
    /\ current_frame_index >= 1

\* the ground and plane entities and the map dense cloud a load of frame f registers,
\* under the names it gives them
LoadedNames(d, f) ==
    IF f = 0
      THEN {FrameName("ground", i) : i \in d.mg} \cup {FrameName("plane", i) : i \in d.mp}
           \cup (IF d.md > 0 THEN {DenseName("")} ELSE {})
      ELSE {MapName("ground", i) : i \in d.mg} \cup {MapName("plane", i) : i \in d.mp}
           \cup (IF d.md > 0 THEN {DenseName("map_")} ELSE {})
           \cup (IF d.hasT
                   THEN {TransformedName(f, "ground", i) : i \in d.fg}
                        \cup {TransformedName(f, "plane", i) : i \in d.fp}
                   ELSE {FrameName("ground", i) : i \in d.fg}
                        \cup {FrameName("plane", i) : i \in d.fp})

\* C26: when a load of a frame returns, a render window exists and every entity loaded
\* for the frame is in the visible set, whether or not a window existed before the call
\* (the window the load left has not been closed since).
C26_LoadEndsRendered ==
    (last.op = "load" /\ ~last.err /\ winOpen) =>
        /\ vis
        /\ LoadedNames(data, current_frame_index) \subseteq DOMAIN geometries

\* the entities of a kind in a set of names: base, map and transformed of the frame
OfKind(names, cloud_type, f) ==
    {n \in names : IsTypeName(n, cloud_type) \/ IsTransformedOfType(n, f, cloud_type)}

\* toggle_point_cloud_visibility(kind) called twice in a row
ToggledTwice(cloud_type) ==
    toggle_point_cloud_visibility(
        toggle_point_cloud_visibility(S, cloud_type, current_frame_index).s,
        cloud_type, current_frame_index).s

\* C27: from a displayed frame in which every entity of a kind (base, map and
\* transformed) is visible, two consecutive toggle_point_cloud_visibility(kind) calls
\* leave every entity of the kind visible again, also when the kind has transformed
\* entities only.
C27_DoubleToggleRestores ==
    vis => \A k \in CloudTypes :
             (OfKind(DOMAIN hidden_geometries, k, current_frame_index) = {}) =>
                 OfKind(DOMAIN geometries, k, current_frame_index)
                     \subseteq DOMAIN ToggledTwice(k).geometries

\* C28: in every reachable state, whenever a filtered_dense_cloud_{f}_* entity of the
\* current frame is visible, transformed_cloud_{f}_T_opt_w_b_dense_cloud is not; after any
\* interleaving of dense-bucket checkbox toggles and dense_cloud kind toggles.
C28_FilteredExcludesWhole ==
    (\E pt \in PointTypes : FilteredName(current_frame_index, pt) \in DOMAIN geometries) =>
        TransformedDenseName(current_frame_index) \notin DOMAIN geometries

\* the entities a match checkbox and an unmatched-item checkbox control
MatchControls(m, f) ==
    {FrameName(TypeName(m.ct), m.ci), MapName(TypeName(m.ot), m.oi),
     TransformedName(f, TypeName(m.ct), m.ci)}

FrameItemControls(it, f) == {FrameName(it.type, it.id), TransformedName(f, it.type, it.id)}

\* the entities under a deselected checkbox, and those under a selected one
Deselected(f) ==
    UNION ({MatchControls(panel.match[k], f) : k \in {j \in DOMAIN panel.match : ~panel.match[j].var}}
           \cup {FrameItemControls(it, f) : it \in {j \in DOMAIN panel.uf : ~panel.uf[j]}}
           \cup {{MapName(it.type, it.id)} : it \in {j \in DOMAIN panel.um : ~panel.um[j]}})

Selected(f) ==
    UNION ({MatchControls(panel.match[k], f) : k \in {j \in DOMAIN panel.match : panel.match[j].var}}
           \cup {FrameItemControls(it, f) : it \in {j \in DOMAIN panel.uf : panel.uf[j]}}
           \cup {{MapName(it.type, it.id)} : it \in {j \in DOMAIN panel.um : panel.um[j]}})

\* C29: an entity under a deselected match or unmatched-item checkbox is not visible,
\* whatever kind toggles or other checkbox toggles happened since; a registered entity
\* whose controlling checkboxes are all selected is visible unless its kind is toggled
\* off (no frame or map entity of the kind is visible).
C29_CheckboxesHoldVisibility ==
    /\ \A n \in Deselected(current_frame_index) : n \notin DOMAIN geometries
    /\ \A n \in (Selected(current_frame_index) \ Deselected(current_frame_index))
                    \cap DOMAIN hidden_geometries :
           \/ n \in DOMAIN geometries
           \/ OfType(DOMAIN geometries, n.kind) = {}

\* the ids a file lists, and whether it lists them in descending order, each once
Listed(ids) == {ids[i] : i \in 1..Len(ids)}

Descending(ids) == \A i, j \in 1..Len(ids) : i < j => ids[i] > ids[j]

\* C30: after a load of a frame f >= 1 with a transform that exported the ids, a map
\* dense-cloud point id is in the exported matched list iff the point is displayed with a
\* colour other than pure red, and in the exported unmatched list iff it is displayed
\* pure red; both lists are in descending id order with each id once.
C30_ExportAgreesWithDisplay ==
    (/\ last.op = "load" /\ ~last.err /\ current_frame_index >= 1 /\ data.hasT
     /\ current_frame_index \in DOMAIN exported
     /\ DenseName("map_") \in DOMAIN geometries) =>
        /\ \A j \in 0..(data.md - 1) :
               /\ j \in Listed(exported[current_frame_index].matched)
                      <=> Colors(DenseName("map_"))[j + 1] # RED
               /\ j \in Listed(exported[current_frame_index].unmatched)
                      <=> Colors(DenseName("map_"))[j + 1] = RED
        /\ Descending(exported[current_frame_index].matched)
        /\ Descending(exported[current_frame_index].unmatched)

====
